---- MODULE Spec2Model ----
(***************************************************************************)
(* Model of the nutrient outline library in src/nutritional_guidelines.py  *)
(* (and the copy of calc_EER in src/utils.py).                             *)
(*                                                                         *)
(* The library is a set of pure functions.  The state machine below is a   *)
(* caller that invokes one function at a time: in state "idle" it picks a  *)
(* function and arguments, the call runs to completion and leaves its      *)
(* outcome in ret (state "done"), and Return goes back to "idle".  A call  *)
(* of calc_EER or of a generator is one step (Spec); a call of             *)
(* generate_nutritional_guideline takes one step per function it calls     *)
(* (GuidelineSpec) and keeps its local variables in locals.  Under         *)
(* InterleavedSpec two callers run at the same time, each with a frame in  *)
(* threads, and the dictionaries their calls create lie in heap.           *)
(*                                                                         *)
(* Number representation (TLC has integers only):                          *)
(*   age                 tenths of a year       (185 is 18.5 years)        *)
(*   height, weight      whole cm and kg                                   *)
(*   eer, EER values     thousandths of a kcal  (2956170 is 2956.17 kcal)  *)
(*   outline amounts     tenths of the nutrient's unit (13 is 1.3 mg)      *)
(*   multipliers, clamp  hundredths             (115 is 1.15)              *)
(* Arithmetic is exact decimal arithmetic and round() is Python's          *)
(* round-half-to-even applied to the exact value.  Python evaluates the    *)
(* same expressions in binary floating point, which can differ from the    *)
(* exact value only in the last bits; the two agree except on inputs whose *)
(* exact value is a rounding tie.                                          *)
(***************************************************************************)
EXTENDS Integers, FiniteSets, Sequences, TLC

VARIABLES pc, fn, args, ret, locals, threads, heap

vars == <<pc, fn, args, ret, locals, threads, heap>>

----------------------------------------------------------------------------
(* Input domains *)

\* kcal between two consecutive sampled EER values
EerStep == 150
\* number of sampled EER values on the grid
EerSteps == 40
\* largest sampled height and weight step (heights are 130 + 10*k cm,
\* weights are 40 + 10*k kg)
MaxSizeStep == 6

\* band edges of the code (14, 18/19, 30/31, 50/51, 70/71), the half years
\* between them, and ages below 14
Ages == {130, 139, 140, 180, 185, 190, 250, 300, 305, 310,
         500, 505, 510, 700, 705, 710, 800}

Genders == {"M", "F", "X"}

ActivityLevels == {"inactive", "low_active", "active", "very_active", "sedentary"}

ValidActivityLevels == {"inactive", "low_active", "active", "very_active"}

\* the EER grid, the values of the documented scenarios, the two reference
\* EERs, and non-positive values
Eers == {k * EerStep * 1000 : k \in 1..EerSteps}
          \cup {-500000, 0, 1, 1800000, 2000000, 2500000, 2956170}

Heights == {-10, 0, 1, 10} \cup {130 + 10 * k : k \in 0..MaxSizeStep}

Weights == {-5, 0, 1, 10} \cup {40 + 10 * k : k \in 0..MaxSizeStep}

\* a call of generate_nutritional_guideline takes 36 steps; its heights and
\* weights are drawn from a coarser grid: every second height and weight,
\* and two sizes small enough for an EER of zero or less
GuidelineHeights == {0, 10} \cup {h \in Heights : h >= 150 /\ h % 20 = 10}

GuidelineWeights == {0, 10} \cup {w \in Weights : w >= 50 /\ w % 20 = 10}

----------------------------------------------------------------------------
(* Outcomes of a call *)

\* raise ValueError(...): the call returns nothing
Err(kind) == [status |-> "error", error |-> kind]

\* a returned number
Num(v) == [status |-> "ok", value |-> v]

\* a returned outline dictionary
Outline(ri, ll, ul, units) ==
    [status |-> "ok", recommended_intake |-> ri, lower_limit |-> ll,
     upper_limit |-> ul, units |-> units]

----------------------------------------------------------------------------
(* Arithmetic helpers *)

\* Python round(): num/den (num >= 0, den > 0) to the nearest integer,
\* ties to the even neighbour
RoundHalfEven(num, den) ==
    LET q == num \div den
        r == num % den
    IN IF 2 * r > den \/ (2 * r = den /\ q % 2 = 1) THEN q + 1 ELSE q

\* round(a * n / d) for d a multiple of 1000, computed in two limbs so that
\* no intermediate product leaves 32 bits
MulDivRound(a, n, d) ==
    LET dr == d \div 1000
        nh == n \div 1000
        nl == n % 1000
        n1 == a * nh
        q1 == n1 \div dr
        r1 == n1 % dr
        R  == r1 * 1000 + a * nl
        q  == q1 + (R \div d)
        r  == R % d
    IN IF 2 * r > d \/ (2 * r = d /\ q % 2 = 1) THEN q + 1 ELSE q

Max(a, b) == IF a >= b THEN a ELSE b

----------------------------------------------------------------------------
(* calc_EER *)

\* fault: the gender check is missing
validate_EER_args_no_gender(age, gender, activity_level) ==
    IF ~(age >= 140) THEN "age"
    ELSE IF activity_level \notin ValidActivityLevels THEN "activity_level"
    ELSE "ok"

\* the three checks at the head of calc_EER, in source order
validate_EER_args(age, gender, activity_level) ==
    IF ~(age >= 140) THEN "age"
    ELSE IF gender \notin {"M", "F"} THEN "gender"
    ELSE IF activity_level \notin ValidActivityLevels THEN "activity_level"
    ELSE "ok"

\* the Vitamin A block that follows the 16 returns inside calc_EER
embedded_vitamin_a(age, gender) ==
    LET age_group == IF age <= 30 THEN "1-3"
                     ELSE IF age <= 80 THEN "4-8"
                     ELSE IF age <= 130 THEN "9-13"
                     ELSE IF age <= 180 THEN "14-18"
                     ELSE IF age <= 300 THEN "19-30"
                     ELSE IF age <= 500 THEN "31-50"
                     ELSE IF age <= 700 THEN "51-70"
                     ELSE ">70"
        eff_gender == IF age <= 80 THEN "both" ELSE gender
        key == <<age_group, eff_gender>>
        data == IF key = <<"1-3", "both">> THEN <<300, 210, 600>>
                ELSE IF key = <<"4-8", "both">> THEN <<400, 275, 900>>
                ELSE IF key = <<"9-13", "M">> THEN <<600, 445, 1700>>
                ELSE IF key = <<"9-13", "F">> THEN <<600, 420, 1700>>
                ELSE IF key = <<"14-18", "M">> THEN <<900, 630, 2800>>
                ELSE IF key = <<"14-18", "F">> THEN <<700, 485, 2800>>
                ELSE IF eff_gender = "F" THEN <<700, 500, 3000>>
                ELSE <<900, 625, 3000>>
    IN [status |-> "ok", recommended_intake |-> 10 * data[1],
        lower_limit |-> 10 * data[2], upper_limit |-> 10 * data[3]]

\* fault: 14 <= age <= 19
is_adolescent_through_19(age) == 140 <= age /\ age <= 190

\* if 14 <= age < 19: the adolescent equations
is_adolescent(age) == 140 <= age /\ age < 190

\* fault: the equations test for 'very active', so that a very_active call
\* matches no equation and runs into the Vitamin A block
EER_equations_very_active_misspelt(age, height, weight, gender, activity_level) ==
    LET eq(a, b, c, d, g) ==
            Num(10 * a + b * age + 10 * c * height + 10 * d * weight + 1000 * g)
    IN
    IF is_adolescent(age) THEN
        IF gender = "M" THEN
            IF activity_level = "inactive" THEN eq(-44751, 368, 1301, 1315, 20)
            ELSE IF activity_level = "low_active" THEN eq(1912, 368, 862, 2028, 20)
            ELSE IF activity_level = "active" THEN eq(-38819, 368, 1266, 2046, 20)
            ELSE IF activity_level = "very active" THEN eq(-67175, 368, 1538, 2325, 20)
            ELSE embedded_vitamin_a(age, gender)
        ELSE IF gender = "F" THEN
            IF activity_level = "inactive" THEN eq(5559, -2225, 843, 1707, 20)
            ELSE IF activity_level = "low_active" THEN eq(-29754, -2225, 1277, 1473, 20)
            ELSE IF activity_level = "active" THEN eq(-18955, -2225, 1174, 1834, 20)
            ELSE IF activity_level = "very active" THEN eq(-70959, -2225, 1822, 1425, 20)
            ELSE embedded_vitamin_a(age, gender)
        ELSE embedded_vitamin_a(age, gender)
    ELSE
        IF gender = "M" THEN
            IF activity_level = "inactive" THEN eq(75307, -1083, 650, 1410, 0)
            ELSE IF activity_level = "low_active" THEN eq(58147, -1083, 830, 1494, 0)
            ELSE IF activity_level = "active" THEN eq(100482, -1083, 652, 1591, 0)
            ELSE IF activity_level = "very active" THEN eq(-51788, -1083, 1561, 1911, 0)
            ELSE embedded_vitamin_a(age, gender)
        ELSE IF gender = "F" THEN
            IF activity_level = "inactive" THEN eq(58490, -701, 572, 1171, 0)
            ELSE IF activity_level = "low_active" THEN eq(57577, -701, 660, 1214, 0)
            ELSE IF activity_level = "active" THEN eq(71025, -701, 654, 1234, 0)
            ELSE IF activity_level = "very active" THEN eq(51183, -701, 907, 1256, 0)
            ELSE embedded_vitamin_a(age, gender)
        ELSE embedded_vitamin_a(age, gender)

\* the 16 equations; eq takes the intercept and the age, height and weight
\* coefficients in hundredths and the growth allowance in kcal
EER_equations(age, height, weight, gender, activity_level) ==
    LET eq(a, b, c, d, g) ==
            Num(10 * a + b * age + 10 * c * height + 10 * d * weight + 1000 * g)
    IN
    IF is_adolescent(age) THEN
        IF gender = "M" THEN
            IF activity_level = "inactive" THEN eq(-44751, 368, 1301, 1315, 20)
            ELSE IF activity_level = "low_active" THEN eq(1912, 368, 862, 2028, 20)
            ELSE IF activity_level = "active" THEN eq(-38819, 368, 1266, 2046, 20)
            ELSE IF activity_level = "very_active" THEN eq(-67175, 368, 1538, 2325, 20)
            ELSE embedded_vitamin_a(age, gender)
        ELSE IF gender = "F" THEN
            IF activity_level = "inactive" THEN eq(5559, -2225, 843, 1707, 20)
            ELSE IF activity_level = "low_active" THEN eq(-29754, -2225, 1277, 1473, 20)
            ELSE IF activity_level = "active" THEN eq(-18955, -2225, 1174, 1834, 20)
            ELSE IF activity_level = "very_active" THEN eq(-70959, -2225, 1822, 1425, 20)
            ELSE embedded_vitamin_a(age, gender)
        ELSE embedded_vitamin_a(age, gender)
    ELSE
        IF gender = "M" THEN
            IF activity_level = "inactive" THEN eq(75307, -1083, 650, 1410, 0)
            ELSE IF activity_level = "low_active" THEN eq(58147, -1083, 830, 1494, 0)
            ELSE IF activity_level = "active" THEN eq(100482, -1083, 652, 1591, 0)
            ELSE IF activity_level = "very_active" THEN eq(-51788, -1083, 1561, 1911, 0)
            ELSE embedded_vitamin_a(age, gender)
        ELSE IF gender = "F" THEN
            IF activity_level = "inactive" THEN eq(58490, -701, 572, 1171, 0)
            ELSE IF activity_level = "low_active" THEN eq(57577, -701, 660, 1214, 0)
            ELSE IF activity_level = "active" THEN eq(71025, -701, 654, 1234, 0)
            ELSE IF activity_level = "very_active" THEN eq(51183, -701, 907, 1256, 0)
            ELSE embedded_vitamin_a(age, gender)
        ELSE embedded_vitamin_a(age, gender)

\* fault: height and weight are validated as well
calc_EER_checked(age, height, weight, gender, activity_level) ==
    LET v == validate_EER_args(age, gender, activity_level)
    IN IF v # "ok" THEN Err(v)
       ELSE IF ~(height > 0) THEN Err("height")
       ELSE IF ~(weight > 0) THEN Err("weight")
       ELSE EER_equations(age, height, weight, gender, activity_level)

calc_EER(age, height, weight, gender, activity_level) ==
    LET v == validate_EER_args(age, gender, activity_level)
    IN IF v # "ok" THEN Err(v)
       ELSE EER_equations(age, height, weight, gender, activity_level)

----------------------------------------------------------------------------
(* Steps shared by the outline generators *)

\* fault: the eer check is missing
validate_outline_args_no_eer(age, gender, activity_level, eer) ==
    IF ~(age >= 140) THEN "age"
    ELSE IF gender \notin {"M", "F"} THEN "gender"
    ELSE IF activity_level \notin ValidActivityLevels THEN "activity_level"
    ELSE "ok"

\* the four checks at the head of every generator, in source order
validate_outline_args(age, gender, activity_level, eer) ==
    IF ~(age >= 140) THEN "age"
    ELSE IF gender \notin {"M", "F"} THEN "gender"
    ELSE IF activity_level \notin ValidActivityLevels THEN "activity_level"
    ELSE IF ~(eer > 0) THEN "eer"
    ELSE "ok"

\* reference_eer = 2500 if gender == 'M' else 2000   (kcal)
reference_eer(gender) == IF gender = "M" THEN 2500 ELSE 2000

\* fault: min(hi, eer / reference_eer), the lower clamp is missing
eer_adjustment_no_floor(gender, eer, lo, hi) ==
    LET ref == reference_eer(gender)
    IN IF eer >= hi * ref * 10 THEN <<hi, 100>>
       ELSE <<eer, ref * 1000>>

\* eer_adjustment = min(hi, max(lo, eer / reference_eer)) as a fraction
\* <<numerator, denominator>>; lo and hi in hundredths
eer_adjustment(gender, eer, lo, hi) ==
    LET ref == reference_eer(gender)
    IN IF eer <= lo * ref * 10 THEN <<lo, 100>>
       ELSE IF eer >= hi * ref * 10 THEN <<hi, 100>>
       ELSE <<eer, ref * 1000>>

\* fault: the recommended intake is divided by the EER adjustment
adjusted_intake_divided(base, mult, gender, eer, lo, hi) ==
    LET adj == eer_adjustment(gender, eer, lo, hi)
    IN MulDivRound(base * mult, adj[2], 100 * adj[1])

\* recommended_intake *= multiplier; recommended_intake *= eer_adjustment;
\* recommended_intake = round(recommended_intake, ndigits).
\* base and the result are in units of 10^-ndigits, mult in hundredths.
adjusted_intake(base, mult, gender, eer, lo, hi) ==
    LET adj == eer_adjustment(gender, eer, lo, hi)
    IN MulDivRound(base * mult, adj[1], 100 * adj[2])

----------------------------------------------------------------------------
(* Macronutrients *)

\* fault: the eer is not checked to be positive
generate_carbohydrates_outline_eer_unchecked(age, gender, activity_level, eer) ==
    LET v == validate_outline_args_no_eer(age, gender, activity_level, eer)
    IN IF v # "ok" THEN Err(v)
       ELSE Outline(10 * RoundHalfEven(55 * eer, 100 * 4 * 1000),
                    10 * RoundHalfEven(45 * eer, 100 * 4 * 1000),
                    10 * RoundHalfEven(65 * eer, 100 * 4 * 1000), "g")

\* round(.55 * eer / 4), round(.45 * eer / 4), round(.65 * eer / 4)
generate_carbohydrates_outline(age, gender, activity_level, eer) ==
    LET v == validate_outline_args(age, gender, activity_level, eer)
    IN IF v # "ok" THEN Err(v)
       ELSE Outline(10 * RoundHalfEven(55 * eer, 100 * 4 * 1000),
                    10 * RoundHalfEven(45 * eer, 100 * 4 * 1000),
                    10 * RoundHalfEven(65 * eer, 100 * 4 * 1000), "g")

\* fault: the inactive entry is 1.0, so that no entry lowers the base value
fiber_activity_multipliers_inactive_100 ==
    [inactive |-> 100, low_active |-> 100, active |-> 110, very_active |-> 120]

fiber_activity_multipliers ==
    [inactive |-> 95, low_active |-> 100, active |-> 110, very_active |-> 120]

\* fault: the recommended intake is not floored at 14 g per 1000 kcal
generate_fiber_outline_no_floor(age, gender, activity_level, eer) ==
    LET v == validate_outline_args(age, gender, activity_level, eer)
        base == IF 140 <= age /\ age <= 180
                THEN (IF gender = "M" THEN <<38, 30>> ELSE <<26, 21>>)
                ELSE IF gender = "M"
                     THEN (IF age > 500 THEN <<21, 17>> ELSE <<30, 24>>)
                     ELSE (IF age > 500 THEN <<14, 11>> ELSE <<21, 17>>)
        by_activity == base[1] * fiber_activity_multipliers[activity_level] * 10000
        ri == RoundHalfEven(by_activity, 1000000)
        ul == RoundHalfEven(15 * ri, 10)
    IN IF v # "ok" THEN Err(v)
       ELSE Outline(10 * ri, 10 * base[2], 10 * ul, "g")

\* recommended_intake = round(max(base * multiplier, (eer / 1000) * 14)):
\* both operands of max are brought to millionths of a gram
generate_fiber_outline(age, gender, activity_level, eer) ==
    LET v == validate_outline_args(age, gender, activity_level, eer)
        base == IF 140 <= age /\ age <= 180
                THEN (IF gender = "M" THEN <<38, 30>> ELSE <<26, 21>>)
                ELSE IF gender = "M"
                     THEN (IF age > 500 THEN <<21, 17>> ELSE <<30, 24>>)
                     ELSE (IF age > 500 THEN <<14, 11>> ELSE <<21, 17>>)
        by_activity == base[1] * fiber_activity_multipliers[activity_level] * 10000
        eer_based_fiber == 14 * eer
        ri == RoundHalfEven(Max(by_activity, eer_based_fiber), 1000000)
        ul == RoundHalfEven(15 * ri, 10)
    IN IF v # "ok" THEN Err(v)
       ELSE Outline(10 * ri, 10 * base[2], 10 * ul, "g")

protein_activity_multipliers ==
    [inactive |-> 100, low_active |-> 110, active |-> 130, very_active |-> 150]

\* fault: the upper limit is not raised to twice the recommended intake
generate_protein_outline_ul_not_floored(age, gender, activity_level, eer) ==
    LET v == validate_outline_args(age, gender, activity_level, eer)
        base == IF 140 <= age /\ age <= 180
                THEN (IF gender = "M" THEN <<52, 43>> ELSE <<46, 38>>)
                ELSE (IF gender = "M" THEN <<56, 46>> ELSE <<46, 38>>)
        ri == adjusted_intake(base[1], protein_activity_multipliers[activity_level],
                              gender, eer, 90, 120)
        estimated_weight == IF 140 <= age /\ age <= 180
                            THEN (IF gender = "M" THEN 60 ELSE 50)
                            ELSE (IF gender = "M" THEN 70 ELSE 57)
        ul == RoundHalfEven(20 * estimated_weight, 10)
    IN IF v # "ok" THEN Err(v)
       ELSE Outline(10 * ri, 10 * base[2], 10 * ul, "g")

generate_protein_outline(age, gender, activity_level, eer) ==
    LET v == validate_outline_args(age, gender, activity_level, eer)
        base == IF 140 <= age /\ age <= 180
                THEN (IF gender = "M" THEN <<52, 43>> ELSE <<46, 38>>)
                ELSE (IF gender = "M" THEN <<56, 46>> ELSE <<46, 38>>)
        ri == adjusted_intake(base[1], protein_activity_multipliers[activity_level],
                              gender, eer, 90, 120)
        estimated_weight == IF 140 <= age /\ age <= 180
                            THEN (IF gender = "M" THEN 60 ELSE 50)
                            ELSE (IF gender = "M" THEN 70 ELSE 57)
        ul == Max(RoundHalfEven(20 * estimated_weight, 10), 2 * ri)
    IN IF v # "ok" THEN Err(v)
       ELSE Outline(10 * ri, 10 * base[2], 10 * ul, "g")

\* fault: divides by 4 kcal/g as for carbohydrates
generate_fat_outline_div4(age, gender, activity_level, eer) ==
    LET v == validate_outline_args(age, gender, activity_level, eer)
    IN IF v # "ok" THEN Err(v)
       ELSE Outline(10 * RoundHalfEven(275 * eer, 1000 * 4 * 1000),
                    10 * RoundHalfEven(2 * eer, 10 * 4 * 1000),
                    10 * RoundHalfEven(35 * eer, 100 * 4 * 1000), "g")

\* round(.275 * eer / 9), round(.2 * eer / 9), round(.35 * eer / 9)
generate_fat_outline(age, gender, activity_level, eer) ==
    LET v == validate_outline_args(age, gender, activity_level, eer)
    IN IF v # "ok" THEN Err(v)
       ELSE Outline(10 * RoundHalfEven(275 * eer, 1000 * 9 * 1000),
                    10 * RoundHalfEven(2 * eer, 10 * 9 * 1000),
                    10 * RoundHalfEven(35 * eer, 100 * 9 * 1000), "g")

----------------------------------------------------------------------------
(* Vitamins and minerals: base values by age band and gender, activity      *)
(* multiplier, clamped EER adjustment, rounding, upper limit               *)

vitamin_a_activity_multipliers ==
    [inactive |-> 100, low_active |-> 103, active |-> 106, very_active |-> 110]

generate_vitamin_a_outline(age, gender, activity_level, eer) ==
    LET v == validate_outline_args(age, gender, activity_level, eer)
        base == IF 140 <= age /\ age <= 180 THEN (IF gender = "M" THEN <<900, 630>> ELSE <<700, 485>>)
                ELSE (IF gender = "M" THEN <<900, 625>> ELSE <<700, 500>>)
        ri == adjusted_intake(base[1], vitamin_a_activity_multipliers[activity_level],
                              gender, eer, 85, 115)
        ul == IF 140 <= age /\ age <= 180 THEN 2800 ELSE 3000
    IN IF v # "ok" THEN Err(v)
       ELSE Outline(10 * ri, 10 * base[2], 10 * ul, "mcg")

vitamin_c_activity_multipliers ==
    [inactive |-> 100, low_active |-> 105, active |-> 110, very_active |-> 115]

generate_vitamin_c_outline(age, gender, activity_level, eer) ==
    LET v == validate_outline_args(age, gender, activity_level, eer)
        base == IF 140 <= age /\ age <= 180 THEN (IF gender = "M" THEN <<75, 63>> ELSE <<65, 56>>)
                ELSE (IF gender = "M" THEN <<90, 75>> ELSE <<75, 60>>)
        ri == adjusted_intake(base[1], vitamin_c_activity_multipliers[activity_level],
                              gender, eer, 90, 110)
        ul == IF 140 <= age /\ age <= 180 THEN 1800 ELSE 2000
    IN IF v # "ok" THEN Err(v)
       ELSE Outline(10 * ri, 10 * base[2], 10 * ul, "mg")

\* fault: the clamp window of vitamin C (0.9 to 1.1)
generate_vitamin_d_outline_clamp90(age, gender, activity_level, eer) ==
    LET v == validate_outline_args(age, gender, activity_level, eer)
        base == IF 140 <= age /\ age <= 700 THEN <<15, 10>>
                ELSE <<20, 10>>
        mult == [inactive |-> 100, low_active |-> 105, active |-> 110, very_active |-> 115]
        ri == adjusted_intake(base[1], mult[activity_level], gender, eer, 90, 110)
        ul == IF 140 <= age /\ age <= 180 THEN 100 ELSE 100
    IN IF v # "ok" THEN Err(v)
       ELSE Outline(10 * ri, 10 * base[2], 10 * ul, "mcg")

vitamin_d_activity_multipliers ==
    [inactive |-> 100, low_active |-> 105, active |-> 110, very_active |-> 115]

generate_vitamin_d_outline(age, gender, activity_level, eer) ==
    LET v == validate_outline_args(age, gender, activity_level, eer)
        base == IF 140 <= age /\ age <= 700 THEN <<15, 10>>
                ELSE <<20, 10>>
        ri == adjusted_intake(base[1], vitamin_d_activity_multipliers[activity_level],
                              gender, eer, 95, 110)
        ul == IF 140 <= age /\ age <= 180 THEN 100 ELSE 100
    IN IF v # "ok" THEN Err(v)
       ELSE Outline(10 * ri, 10 * base[2], 10 * ul, "mcg")

vitamin_b6_activity_multipliers ==
    [inactive |-> 100, low_active |-> 103, active |-> 107, very_active |-> 110]

\* fault: round(recommended_intake) instead of round(recommended_intake, 1)
generate_vitamin_b6_outline_round_integer(age, gender, activity_level, eer) ==
    LET v == validate_outline_args(age, gender, activity_level, eer)
        base == IF 140 <= age /\ age <= 180 THEN (IF gender = "M" THEN <<13, 11>> ELSE <<12, 10>>)
                ELSE IF 190 <= age /\ age <= 500 THEN (IF gender = "M" THEN <<13, 11>> ELSE <<13, 11>>)
                ELSE (IF gender = "M" THEN <<17, 14>> ELSE <<15, 13>>)
        adj == eer_adjustment(gender, eer, 95, 105)
        ri == 10 * MulDivRound(base[1] * vitamin_b6_activity_multipliers[activity_level],
                               adj[1], 1000 * adj[2])
        ul == 10 * 100
    IN IF v # "ok" THEN Err(v)
       ELSE Outline(ri, base[2], ul, "mg")

\* rounds to one decimal: base, ri and ul are in tenths of a mg
generate_vitamin_b6_outline(age, gender, activity_level, eer) ==
    LET v == validate_outline_args(age, gender, activity_level, eer)
        base == IF 140 <= age /\ age <= 180 THEN (IF gender = "M" THEN <<13, 11>> ELSE <<12, 10>>)
                ELSE IF 190 <= age /\ age <= 500 THEN (IF gender = "M" THEN <<13, 11>> ELSE <<13, 11>>)
                ELSE (IF gender = "M" THEN <<17, 14>> ELSE <<15, 13>>)
        ri == adjusted_intake(base[1], vitamin_b6_activity_multipliers[activity_level],
                              gender, eer, 95, 105)
        ul == 10 * 100
    IN IF v # "ok" THEN Err(v)
       ELSE Outline(ri, base[2], ul, "mg")

vitamin_e_activity_multipliers ==
    [inactive |-> 100, low_active |-> 103, active |-> 107, very_active |-> 110]

\* rounds to one decimal: base, ri and ul are in tenths of a mg
generate_vitamin_e_outline(age, gender, activity_level, eer) ==
    LET v == validate_outline_args(age, gender, activity_level, eer)
        base == IF 140 <= age /\ age <= 180 THEN <<150, 120>>
                ELSE <<150, 120>>
        ri == adjusted_intake(base[1], vitamin_e_activity_multipliers[activity_level],
                              gender, eer, 95, 105)
        ul == 10 * 1000
    IN IF v # "ok" THEN Err(v)
       ELSE Outline(ri, base[2], ul, "mg")

\* fault: the multipliers of protein
vitamin_k_activity_multipliers_as_protein ==
    [inactive |-> 100, low_active |-> 110, active |-> 130, very_active |-> 150]

vitamin_k_activity_multipliers ==
    [inactive |-> 100, low_active |-> 102, active |-> 104, very_active |-> 105]

generate_vitamin_k_outline(age, gender, activity_level, eer) ==
    LET v == validate_outline_args(age, gender, activity_level, eer)
        base == IF 140 <= age /\ age <= 180 THEN (IF gender = "M" THEN <<75, 60>> ELSE <<75, 60>>)
                ELSE (IF gender = "M" THEN <<120, 96>> ELSE <<90, 72>>)
        ri == adjusted_intake(base[1], vitamin_k_activity_multipliers[activity_level],
                              gender, eer, 97, 103)
        ul == 3 * ri
    IN IF v # "ok" THEN Err(v)
       ELSE Outline(10 * ri, 10 * base[2], 10 * ul, "mcg")

thiamin_activity_multipliers ==
    [inactive |-> 100, low_active |-> 105, active |-> 110, very_active |-> 115]

\* rounds to one decimal: base, ri and ul are in tenths of a mg
generate_thiamin_outline(age, gender, activity_level, eer) ==
    LET v == validate_outline_args(age, gender, activity_level, eer)
        base == IF 140 <= age /\ age <= 180 THEN (IF gender = "M" THEN <<12, 10>> ELSE <<10, 9>>)
                ELSE (IF gender = "M" THEN <<12, 10>> ELSE <<11, 9>>)
        ri == adjusted_intake(base[1], thiamin_activity_multipliers[activity_level],
                              gender, eer, 90, 120)
        ul == RoundHalfEven(5 * ri, 1)
    IN IF v # "ok" THEN Err(v)
       ELSE Outline(ri, base[2], ul, "mg")

vitamin_b12_activity_multipliers ==
    [inactive |-> 100, low_active |-> 102, active |-> 104, very_active |-> 105]

\* rounds to one decimal: base, ri and ul are in tenths of a mcg
generate_vitamin_b12_outline(age, gender, activity_level, eer) ==
    LET v == validate_outline_args(age, gender, activity_level, eer)
        base == <<24, 20>>
        ri == adjusted_intake(base[1], vitamin_b12_activity_multipliers[activity_level],
                              gender, eer, 97, 103)
        ul == RoundHalfEven(10 * ri, 1)
    IN IF v # "ok" THEN Err(v)
       ELSE Outline(ri, base[2], ul, "mcg")

riboflavin_activity_multipliers ==
    [inactive |-> 100, low_active |-> 105, active |-> 110, very_active |-> 115]

\* rounds to one decimal: base, ri and ul are in tenths of a mg
generate_riboflavin_outline(age, gender, activity_level, eer) ==
    LET v == validate_outline_args(age, gender, activity_level, eer)
        base == IF 140 <= age /\ age <= 180 THEN (IF gender = "M" THEN <<13, 11>> ELSE <<10, 9>>)
                ELSE (IF gender = "M" THEN <<13, 11>> ELSE <<11, 9>>)
        ri == adjusted_intake(base[1], riboflavin_activity_multipliers[activity_level],
                              gender, eer, 90, 120)
        ul == RoundHalfEven(5 * ri, 1)
    IN IF v # "ok" THEN Err(v)
       ELSE Outline(ri, base[2], ul, "mg")

folate_activity_multipliers ==
    [inactive |-> 100, low_active |-> 103, active |-> 107, very_active |-> 110]

generate_folate_outline(age, gender, activity_level, eer) ==
    LET v == validate_outline_args(age, gender, activity_level, eer)
        base == IF 140 <= age /\ age <= 180 THEN <<400, 320>>
                ELSE <<400, 320>>
        ri == adjusted_intake(base[1], folate_activity_multipliers[activity_level],
                              gender, eer, 95, 105)
        ul == IF 140 <= age /\ age <= 180 THEN 800 ELSE 1000
    IN IF v # "ok" THEN Err(v)
       ELSE Outline(10 * ri, 10 * base[2], 10 * ul, "mcg")

niacin_activity_multipliers ==
    [inactive |-> 100, low_active |-> 105, active |-> 110, very_active |-> 115]

\* rounds to one decimal: base, ri and ul are in tenths of a mg
generate_niacin_outline(age, gender, activity_level, eer) ==
    LET v == validate_outline_args(age, gender, activity_level, eer)
        base == IF 140 <= age /\ age <= 180 THEN (IF gender = "M" THEN <<160, 120>> ELSE <<140, 110>>)
                ELSE (IF gender = "M" THEN <<160, 120>> ELSE <<140, 110>>)
        ri == adjusted_intake(base[1], niacin_activity_multipliers[activity_level],
                              gender, eer, 90, 120)
        ul == IF 140 <= age /\ age <= 180 THEN 10 * 30 ELSE 10 * 35
    IN IF v # "ok" THEN Err(v)
       ELSE Outline(ri, base[2], ul, "mg")

choline_activity_multipliers ==
    [inactive |-> 100, low_active |-> 103, active |-> 107, very_active |-> 110]

generate_choline_outline(age, gender, activity_level, eer) ==
    LET v == validate_outline_args(age, gender, activity_level, eer)
        base == IF 140 <= age /\ age <= 180 THEN (IF gender = "M" THEN <<550, 440>> ELSE <<400, 320>>)
                ELSE (IF gender = "M" THEN <<550, 440>> ELSE <<425, 340>>)
        ri == adjusted_intake(base[1], choline_activity_multipliers[activity_level],
                              gender, eer, 95, 105)
        ul == IF 140 <= age /\ age <= 180 THEN 3000 ELSE 3500
    IN IF v # "ok" THEN Err(v)
       ELSE Outline(10 * ri, 10 * base[2], 10 * ul, "mg")

pantothenic_acid_activity_multipliers ==
    [inactive |-> 100, low_active |-> 103, active |-> 107, very_active |-> 110]

\* rounds to one decimal: base, ri and ul are in tenths of a mg
generate_pantothenic_acid_outline(age, gender, activity_level, eer) ==
    LET v == validate_outline_args(age, gender, activity_level, eer)
        base == <<50, 40>>
        ri == adjusted_intake(base[1], pantothenic_acid_activity_multipliers[activity_level],
                              gender, eer, 95, 105)
        ul == RoundHalfEven(5 * ri, 1)
    IN IF v # "ok" THEN Err(v)
       ELSE Outline(ri, base[2], ul, "mg")

biotin_activity_multipliers ==
    [inactive |-> 100, low_active |-> 102, active |-> 104, very_active |-> 105]

generate_biotin_outline(age, gender, activity_level, eer) ==
    LET v == validate_outline_args(age, gender, activity_level, eer)
        base == IF 140 <= age /\ age <= 180 THEN <<25, 20>>
                ELSE <<30, 24>>
        ri == adjusted_intake(base[1], biotin_activity_multipliers[activity_level],
                              gender, eer, 97, 103)
        ul == 10 * ri
    IN IF v # "ok" THEN Err(v)
       ELSE Outline(10 * ri, 10 * base[2], 10 * ul, "mcg")

\* fault: the entries of low_active and active are exchanged
calcium_activity_multipliers_exchanged ==
    [inactive |-> 100, low_active |-> 107, active |-> 103, very_active |-> 110]

calcium_activity_multipliers ==
    [inactive |-> 100, low_active |-> 103, active |-> 107, very_active |-> 110]

generate_calcium_outline(age, gender, activity_level, eer) ==
    LET v == validate_outline_args(age, gender, activity_level, eer)
        base == IF 140 <= age /\ age <= 180 THEN <<1300, 1000>>
                ELSE IF 190 <= age /\ age <= 500 THEN <<1000, 800>>
                ELSE IF gender = "M" /\ age <= 700 THEN <<1000, 800>> ELSE <<1200, 1000>>
        ri == adjusted_intake(base[1], calcium_activity_multipliers[activity_level],
                              gender, eer, 95, 105)
        ul == IF 140 <= age /\ age <= 180 THEN 3000 ELSE IF 190 <= age /\ age <= 500 THEN 2500 ELSE 2000
    IN IF v # "ok" THEN Err(v)
       ELSE Outline(10 * ri, 10 * base[2], 10 * ul, "mg")

chloride_activity_multipliers ==
    [inactive |-> 100, low_active |-> 105, active |-> 110, very_active |-> 115]

generate_chloride_outline(age, gender, activity_level, eer) ==
    LET v == validate_outline_args(age, gender, activity_level, eer)
        base == IF 140 <= age /\ age <= 180 THEN <<2300, 1800>>
                ELSE IF 190 <= age /\ age <= 500 THEN <<2300, 1800>>
                ELSE <<2000, 1500>>
        ri == adjusted_intake(base[1], chloride_activity_multipliers[activity_level],
                              gender, eer, 90, 110)
        ul == 3600
    IN IF v # "ok" THEN Err(v)
       ELSE Outline(10 * ri, 10 * base[2], 10 * ul, "mg")

chromium_activity_multipliers ==
    [inactive |-> 100, low_active |-> 103, active |-> 107, very_active |-> 110]

generate_chromium_outline(age, gender, activity_level, eer) ==
    LET v == validate_outline_args(age, gender, activity_level, eer)
        base == IF 140 <= age /\ age <= 180 THEN (IF gender = "M" THEN <<35, 28>> ELSE <<24, 19>>)
                ELSE IF 190 <= age /\ age <= 500 THEN (IF gender = "M" THEN <<35, 28>> ELSE <<25, 20>>)
                ELSE (IF gender = "M" THEN <<30, 24>> ELSE <<20, 16>>)
        ri == adjusted_intake(base[1], chromium_activity_multipliers[activity_level],
                              gender, eer, 95, 105)
        ul == 10 * ri
    IN IF v # "ok" THEN Err(v)
       ELSE Outline(10 * ri, 10 * base[2], 10 * ul, "mcg")

copper_activity_multipliers ==
    [inactive |-> 100, low_active |-> 103, active |-> 107, very_active |-> 110]

generate_copper_outline(age, gender, activity_level, eer) ==
    LET v == validate_outline_args(age, gender, activity_level, eer)
        base == IF 140 <= age /\ age <= 180 THEN <<890, 700>>
                ELSE <<900, 700>>
        ri == adjusted_intake(base[1], copper_activity_multipliers[activity_level],
                              gender, eer, 95, 105)
        ul == IF 140 <= age /\ age <= 180 THEN 8000 ELSE 10000
    IN IF v # "ok" THEN Err(v)
       ELSE Outline(10 * ri, 10 * base[2], 10 * ul, "mcg")

fluoride_activity_multipliers ==
    [inactive |-> 100, low_active |-> 102, active |-> 104, very_active |-> 105]

\* rounds to one decimal: base, ri and ul are in tenths of a mg
generate_fluoride_outline(age, gender, activity_level, eer) ==
    LET v == validate_outline_args(age, gender, activity_level, eer)
        base == IF 140 <= age /\ age <= 180 THEN (IF gender = "M" THEN <<30, 24>> ELSE <<30, 24>>)
                ELSE (IF gender = "M" THEN <<40, 32>> ELSE <<30, 24>>)
        ri == adjusted_intake(base[1], fluoride_activity_multipliers[activity_level],
                              gender, eer, 97, 103)
        ul == 10 * 10
    IN IF v # "ok" THEN Err(v)
       ELSE Outline(ri, base[2], ul, "mg")

iodine_activity_multipliers ==
    [inactive |-> 100, low_active |-> 102, active |-> 104, very_active |-> 105]

generate_iodine_outline(age, gender, activity_level, eer) ==
    LET v == validate_outline_args(age, gender, activity_level, eer)
        base == IF 140 <= age /\ age <= 180 THEN <<150, 95>>
                ELSE <<150, 95>>
        ri == adjusted_intake(base[1], iodine_activity_multipliers[activity_level],
                              gender, eer, 97, 103)
        ul == IF 140 <= age /\ age <= 180 THEN 900 ELSE 1100
    IN IF v # "ok" THEN Err(v)
       ELSE Outline(10 * ri, 10 * base[2], 10 * ul, "mcg")

iron_activity_multipliers ==
    [inactive |-> 100, low_active |-> 103, active |-> 107, very_active |-> 110]

\* rounds to one decimal: base, ri and ul are in tenths of a mg
generate_iron_outline(age, gender, activity_level, eer) ==
    LET v == validate_outline_args(age, gender, activity_level, eer)
        base == IF 140 <= age /\ age <= 180 THEN (IF gender = "M" THEN <<110, 77>> ELSE <<150, 79>>)
                ELSE IF 190 <= age /\ age <= 500 THEN (IF gender = "M" THEN <<80, 60>> ELSE <<180, 81>>)
                ELSE <<80, 60>>
        ri == adjusted_intake(base[1], iron_activity_multipliers[activity_level],
                              gender, eer, 95, 105)
        ul == 10 * 45
    IN IF v # "ok" THEN Err(v)
       ELSE Outline(ri, base[2], ul, "mg")

magnesium_activity_multipliers ==
    [inactive |-> 100, low_active |-> 103, active |-> 107, very_active |-> 110]

\* fault: the lower limit is 80% of the adjusted recommended intake
generate_magnesium_outline_lower_from_intake(age, gender, activity_level, eer) ==
    LET v == validate_outline_args(age, gender, activity_level, eer)
        base == IF 140 <= age /\ age <= 180 THEN (IF gender = "M" THEN <<410, 360>> ELSE <<360, 300>>)
                ELSE IF 190 <= age /\ age <= 300 THEN (IF gender = "M" THEN <<400, 330>> ELSE <<310, 255>>)
                ELSE (IF gender = "M" THEN <<420, 350>> ELSE <<320, 265>>)
        ri == adjusted_intake(base[1], magnesium_activity_multipliers[activity_level],
                              gender, eer, 95, 105)
        ul == 600
    IN IF v # "ok" THEN Err(v)
       ELSE Outline(10 * ri, 8 * ri, 10 * ul, "mg")

generate_magnesium_outline(age, gender, activity_level, eer) ==
    LET v == validate_outline_args(age, gender, activity_level, eer)
        base == IF 140 <= age /\ age <= 180 THEN (IF gender = "M" THEN <<410, 360>> ELSE <<360, 300>>)
                ELSE IF 190 <= age /\ age <= 300 THEN (IF gender = "M" THEN <<400, 330>> ELSE <<310, 255>>)
                ELSE (IF gender = "M" THEN <<420, 350>> ELSE <<320, 265>>)
        ri == adjusted_intake(base[1], magnesium_activity_multipliers[activity_level],
                              gender, eer, 95, 105)
        ul == 600
    IN IF v # "ok" THEN Err(v)
       ELSE Outline(10 * ri, 10 * base[2], 10 * ul, "mg")

manganese_activity_multipliers ==
    [inactive |-> 100, low_active |-> 102, active |-> 104, very_active |-> 105]

\* rounds to one decimal: base, ri and ul are in tenths of a mg
generate_manganese_outline(age, gender, activity_level, eer) ==
    LET v == validate_outline_args(age, gender, activity_level, eer)
        base == IF 140 <= age /\ age <= 180 THEN (IF gender = "M" THEN <<22, 18>> ELSE <<16, 13>>)
                ELSE (IF gender = "M" THEN <<23, 19>> ELSE <<18, 15>>)
        ri == adjusted_intake(base[1], manganese_activity_multipliers[activity_level],
                              gender, eer, 97, 103)
        ul == IF 140 <= age /\ age <= 180 THEN 10 * 9 ELSE 10 * 11
    IN IF v # "ok" THEN Err(v)
       ELSE Outline(ri, base[2], ul, "mg")

molybdenum_activity_multipliers ==
    [inactive |-> 100, low_active |-> 102, active |-> 104, very_active |-> 105]

generate_molybdenum_outline(age, gender, activity_level, eer) ==
    LET v == validate_outline_args(age, gender, activity_level, eer)
        base == IF 140 <= age /\ age <= 180 THEN <<43, 34>>
                ELSE <<45, 34>>
        ri == adjusted_intake(base[1], molybdenum_activity_multipliers[activity_level],
                              gender, eer, 97, 103)
        ul == IF 140 <= age /\ age <= 180 THEN 1700 ELSE 2000
    IN IF v # "ok" THEN Err(v)
       ELSE Outline(10 * ri, 10 * base[2], 10 * ul, "mcg")

phosphorus_activity_multipliers ==
    [inactive |-> 100, low_active |-> 103, active |-> 107, very_active |-> 110]

generate_phosphorus_outline(age, gender, activity_level, eer) ==
    LET v == validate_outline_args(age, gender, activity_level, eer)
        base == IF 140 <= age /\ age <= 180 THEN <<1250, 1055>>
                ELSE <<700, 580>>
        ri == adjusted_intake(base[1], phosphorus_activity_multipliers[activity_level],
                              gender, eer, 95, 105)
        ul == IF 140 <= age /\ age <= 180 THEN 4000 ELSE IF age <= 700 THEN 4000 ELSE 3000
    IN IF v # "ok" THEN Err(v)
       ELSE Outline(10 * ri, 10 * base[2], 10 * ul, "mg")

\* fault: upper limit 3 x recommended intake
generate_potassium_outline_ul3(age, gender, activity_level, eer) ==
    LET v == validate_outline_args(age, gender, activity_level, eer)
        base == IF 140 <= age /\ age <= 180 THEN (IF gender = "M" THEN <<3000, 2400>> ELSE <<2300, 1840>>)
                ELSE (IF gender = "M" THEN <<3400, 2720>> ELSE <<2600, 2080>>)
        mult == [inactive |-> 100, low_active |-> 105, active |-> 110, very_active |-> 115]
        ri == adjusted_intake(base[1], mult[activity_level], gender, eer, 90, 110)
        ul == 3 * ri
    IN IF v # "ok" THEN Err(v)
       ELSE Outline(10 * ri, 10 * base[2], 10 * ul, "mg")

potassium_activity_multipliers ==
    [inactive |-> 100, low_active |-> 105, active |-> 110, very_active |-> 115]

generate_potassium_outline(age, gender, activity_level, eer) ==
    LET v == validate_outline_args(age, gender, activity_level, eer)
        base == IF 140 <= age /\ age <= 180 THEN (IF gender = "M" THEN <<3000, 2400>> ELSE <<2300, 1840>>)
                ELSE (IF gender = "M" THEN <<3400, 2720>> ELSE <<2600, 2080>>)
        ri == adjusted_intake(base[1], potassium_activity_multipliers[activity_level],
                              gender, eer, 90, 110)
        ul == 2 * ri
    IN IF v # "ok" THEN Err(v)
       ELSE Outline(10 * ri, 10 * base[2], 10 * ul, "mg")

selenium_activity_multipliers ==
    [inactive |-> 100, low_active |-> 102, active |-> 104, very_active |-> 105]

\* fault: the eer is checked before the other arguments
generate_selenium_outline_eer_checked_first(age, gender, activity_level, eer) ==
    LET v == IF ~(eer > 0) THEN "eer"
             ELSE validate_outline_args(age, gender, activity_level, eer)
        base == IF 140 <= age /\ age <= 180 THEN <<55, 45>>
                ELSE <<55, 45>>
        ri == adjusted_intake(base[1], selenium_activity_multipliers[activity_level],
                              gender, eer, 97, 103)
        ul == 400
    IN IF v # "ok" THEN Err(v)
       ELSE Outline(10 * ri, 10 * base[2], 10 * ul, "mcg")

generate_selenium_outline(age, gender, activity_level, eer) ==
    LET v == validate_outline_args(age, gender, activity_level, eer)
        base == IF 140 <= age /\ age <= 180 THEN <<55, 45>>
                ELSE <<55, 45>>
        ri == adjusted_intake(base[1], selenium_activity_multipliers[activity_level],
                              gender, eer, 97, 103)
        ul == 400
    IN IF v # "ok" THEN Err(v)
       ELSE Outline(10 * ri, 10 * base[2], 10 * ul, "mcg")

\* fault: the multipliers of protein
sodium_activity_multipliers_as_protein ==
    [inactive |-> 100, low_active |-> 110, active |-> 130, very_active |-> 150]

sodium_activity_multipliers ==
    [inactive |-> 100, low_active |-> 105, active |-> 115, very_active |-> 120]

generate_sodium_outline(age, gender, activity_level, eer) ==
    LET v == validate_outline_args(age, gender, activity_level, eer)
        base == IF 140 <= age /\ age <= 500 THEN <<1500, 1200>>
                ELSE IF 510 <= age /\ age <= 700 THEN <<1300, 1040>>
                ELSE <<1200, 960>>
        ri == adjusted_intake(base[1], sodium_activity_multipliers[activity_level],
                              gender, eer, 85, 115)
        ul == 2300
    IN IF v # "ok" THEN Err(v)
       ELSE Outline(10 * ri, 10 * base[2], 10 * ul, "mg")

zinc_activity_multipliers ==
    [inactive |-> 100, low_active |-> 103, active |-> 107, very_active |-> 110]

\* fault: very_active is not among the activity levels that zinc accepts
generate_zinc_outline_three_levels(age, gender, activity_level, eer) ==
    LET v == IF activity_level = "very_active" THEN "activity_level"
             ELSE validate_outline_args(age, gender, activity_level, eer)
        base == IF 140 <= age /\ age <= 180 THEN (IF gender = "M" THEN <<110, 85>> ELSE <<90, 73>>)
                ELSE (IF gender = "M" THEN <<110, 94>> ELSE <<80, 68>>)
        ri == adjusted_intake(base[1], zinc_activity_multipliers[activity_level],
                              gender, eer, 95, 105)
        ul == IF 140 <= age /\ age <= 180 THEN 10 * 34 ELSE 10 * 40
    IN IF v # "ok" THEN Err(v)
       ELSE Outline(ri, base[2], ul, "mg")

\* rounds to one decimal: base, ri and ul are in tenths of a mg
generate_zinc_outline(age, gender, activity_level, eer) ==
    LET v == validate_outline_args(age, gender, activity_level, eer)
        base == IF 140 <= age /\ age <= 180 THEN (IF gender = "M" THEN <<110, 85>> ELSE <<90, 73>>)
                ELSE (IF gender = "M" THEN <<110, 94>> ELSE <<80, 68>>)
        ri == adjusted_intake(base[1], zinc_activity_multipliers[activity_level],
                              gender, eer, 95, 105)
        ul == IF 140 <= age /\ age <= 180 THEN 10 * 34 ELSE 10 * 40
    IN IF v # "ok" THEN Err(v)
       ELSE Outline(ri, base[2], ul, "mg")

----------------------------------------------------------------------------
(* The generators by name *)

Generators == {
    "generate_carbohydrates_outline", "generate_fiber_outline", "generate_protein_outline",
    "generate_fat_outline", "generate_vitamin_a_outline", "generate_vitamin_c_outline",
    "generate_vitamin_d_outline", "generate_vitamin_b6_outline", "generate_vitamin_e_outline",
    "generate_vitamin_k_outline", "generate_thiamin_outline", "generate_vitamin_b12_outline",
    "generate_riboflavin_outline", "generate_folate_outline", "generate_niacin_outline",
    "generate_choline_outline", "generate_pantothenic_acid_outline", "generate_biotin_outline",
    "generate_calcium_outline", "generate_chloride_outline", "generate_chromium_outline",
    "generate_copper_outline", "generate_fluoride_outline", "generate_iodine_outline",
    "generate_iron_outline", "generate_magnesium_outline", "generate_manganese_outline",
    "generate_molybdenum_outline", "generate_phosphorus_outline", "generate_potassium_outline",
    "generate_selenium_outline", "generate_sodium_outline", "generate_zinc_outline"
    }

\* the outcome of calling generator f
Generate(f, age, gender, activity_level, eer) ==
    CASE f = "generate_carbohydrates_outline" ->
            generate_carbohydrates_outline(age, gender, activity_level, eer)
      [] f = "generate_fiber_outline" ->
            generate_fiber_outline(age, gender, activity_level, eer)
      [] f = "generate_protein_outline" ->
            generate_protein_outline(age, gender, activity_level, eer)
      [] f = "generate_fat_outline" ->
            generate_fat_outline(age, gender, activity_level, eer)
      [] f = "generate_vitamin_a_outline" ->
            generate_vitamin_a_outline(age, gender, activity_level, eer)
      [] f = "generate_vitamin_c_outline" ->
            generate_vitamin_c_outline(age, gender, activity_level, eer)
      [] f = "generate_vitamin_d_outline" ->
            generate_vitamin_d_outline(age, gender, activity_level, eer)
      [] f = "generate_vitamin_b6_outline" ->
            generate_vitamin_b6_outline(age, gender, activity_level, eer)
      [] f = "generate_vitamin_e_outline" ->
            generate_vitamin_e_outline(age, gender, activity_level, eer)
      [] f = "generate_vitamin_k_outline" ->
            generate_vitamin_k_outline(age, gender, activity_level, eer)
      [] f = "generate_thiamin_outline" ->
            generate_thiamin_outline(age, gender, activity_level, eer)
      [] f = "generate_vitamin_b12_outline" ->
            generate_vitamin_b12_outline(age, gender, activity_level, eer)
      [] f = "generate_riboflavin_outline" ->
            generate_riboflavin_outline(age, gender, activity_level, eer)
      [] f = "generate_folate_outline" ->
            generate_folate_outline(age, gender, activity_level, eer)
      [] f = "generate_niacin_outline" ->
            generate_niacin_outline(age, gender, activity_level, eer)
      [] f = "generate_choline_outline" ->
            generate_choline_outline(age, gender, activity_level, eer)
      [] f = "generate_pantothenic_acid_outline" ->
            generate_pantothenic_acid_outline(age, gender, activity_level, eer)
      [] f = "generate_biotin_outline" ->
            generate_biotin_outline(age, gender, activity_level, eer)
      [] f = "generate_calcium_outline" ->
            generate_calcium_outline(age, gender, activity_level, eer)
      [] f = "generate_chloride_outline" ->
            generate_chloride_outline(age, gender, activity_level, eer)
      [] f = "generate_chromium_outline" ->
            generate_chromium_outline(age, gender, activity_level, eer)
      [] f = "generate_copper_outline" ->
            generate_copper_outline(age, gender, activity_level, eer)
      [] f = "generate_fluoride_outline" ->
            generate_fluoride_outline(age, gender, activity_level, eer)
      [] f = "generate_iodine_outline" ->
            generate_iodine_outline(age, gender, activity_level, eer)
      [] f = "generate_iron_outline" ->
            generate_iron_outline(age, gender, activity_level, eer)
      [] f = "generate_magnesium_outline" ->
            generate_magnesium_outline(age, gender, activity_level, eer)
      [] f = "generate_manganese_outline" ->
            generate_manganese_outline(age, gender, activity_level, eer)
      [] f = "generate_molybdenum_outline" ->
            generate_molybdenum_outline(age, gender, activity_level, eer)
      [] f = "generate_phosphorus_outline" ->
            generate_phosphorus_outline(age, gender, activity_level, eer)
      [] f = "generate_potassium_outline" ->
            generate_potassium_outline(age, gender, activity_level, eer)
      [] f = "generate_selenium_outline" ->
            generate_selenium_outline(age, gender, activity_level, eer)
      [] f = "generate_sodium_outline" ->
            generate_sodium_outline(age, gender, activity_level, eer)
      [] f = "generate_zinc_outline" ->
            generate_zinc_outline(age, gender, activity_level, eer)

----------------------------------------------------------------------------
(* The caller *)

NoArgs == [none |-> TRUE]

NoRet == [status |-> "none"]

\* the local variables of a call that runs in several steps: the calls it
\* has made so far, its eer and the outlines it has collected
NoLocals == [calls |-> <<>>, eer |-> NoRet, outlines |-> <<>>]

\* the callers of the interleaved calls (InterleavedSpec) and the arguments
\* they use
Threads == {1, 2}

InterleavedFiberArgs ==
    [age : {140, 510}, gender : {"M", "F"},
     activity_level : {"inactive", "active"}, eer : {0, 2000000, 3000000}]

InterleavedGuidelineArgs ==
    {[age |-> 250, height |-> 170, weight |-> 70, gender |-> "M",
      activity_level |-> "active"],
     [age |-> 140, height |-> 10, weight |-> 10, gender |-> "M",
      activity_level |-> "inactive"],
     [age |-> 130, height |-> 160, weight |-> 50, gender |-> "F",
      activity_level |-> "low_active"],
     [age |-> 185, height |-> 160, weight |-> 50, gender |-> "F",
      activity_level |-> "very_active"]}

\* the frame of a caller that is not in a call
IdleFrame ==
    [pc |-> "idle", fn |-> "none", args |-> NoArgs, eer |-> NoRet,
     outlines |-> <<>>, ret |-> NoRet, changed |-> FALSE]

NoThreads == [t \in Threads |-> IdleFrame]

NoHeap == <<>>

Init ==
    /\ pc = "idle"
    /\ fn = "none"
    /\ args = NoArgs
    /\ ret = NoRet
    /\ locals = NoLocals
    /\ threads = NoThreads
    /\ heap = NoHeap

----------------------------------------------------------------------------
(* calc_EER of utils.py *)

\* fault: a weight coefficient of 12.14 in the equation of the active woman
\* of 19 and older
utils_calc_EER_other_coefficient(age, height, weight, gender, activity_level) ==
    IF ~(age >= 140) THEN Err("age")
    ELSE IF gender \notin {"M", "F"} THEN Err("gender")
    ELSE IF activity_level \notin {"inactive", "low_active", "active",
                                   "very_active"}
    THEN Err("activity_level")
    ELSE IF 140 <= age /\ age < 190 THEN
        IF gender = "M" THEN
            IF activity_level = "inactive"
            THEN Num(-447510 + 368 * age + 13010 * height + 13150 * weight + 20000)
            ELSE IF activity_level = "low_active"
            THEN Num(19120 + 368 * age + 8620 * height + 20280 * weight + 20000)
            ELSE IF activity_level = "active"
            THEN Num(-388190 + 368 * age + 12660 * height + 20460 * weight + 20000)
            ELSE IF activity_level = "very_active"
            THEN Num(-671750 + 368 * age + 15380 * height + 23250 * weight + 20000)
            ELSE NoRet
        ELSE IF gender = "F" THEN
            IF activity_level = "inactive"
            THEN Num(55590 - 2225 * age + 8430 * height + 17070 * weight + 20000)
            ELSE IF activity_level = "low_active"
            THEN Num(-297540 - 2225 * age + 12770 * height + 14730 * weight + 20000)
            ELSE IF activity_level = "active"
            THEN Num(-189550 - 2225 * age + 11740 * height + 18340 * weight + 20000)
            ELSE IF activity_level = "very_active"
            THEN Num(-709590 - 2225 * age + 18220 * height + 14250 * weight + 20000)
            ELSE NoRet
        ELSE NoRet
    ELSE
        IF gender = "M" THEN
            IF activity_level = "inactive"
            THEN Num(753070 - 1083 * age + 6500 * height + 14100 * weight)
            ELSE IF activity_level = "low_active"
            THEN Num(581470 - 1083 * age + 8300 * height + 14940 * weight)
            ELSE IF activity_level = "active"
            THEN Num(1004820 - 1083 * age + 6520 * height + 15910 * weight)
            ELSE IF activity_level = "very_active"
            THEN Num(-517880 - 1083 * age + 15610 * height + 19110 * weight)
            ELSE NoRet
        ELSE IF gender = "F" THEN
            IF activity_level = "inactive"
            THEN Num(584900 - 701 * age + 5720 * height + 11710 * weight)
            ELSE IF activity_level = "low_active"
            THEN Num(575770 - 701 * age + 6600 * height + 12140 * weight)
            ELSE IF activity_level = "active"
            THEN Num(710250 - 701 * age + 6540 * height + 12140 * weight)
            ELSE IF activity_level = "very_active"
            THEN Num(511830 - 701 * age + 9070 * height + 12560 * weight)
            ELSE NoRet
        ELSE NoRet

\* calc_EER of utils.py: the three checks and the 16 equations; age in
\* tenths of a year, the result in thousandths of a kcal; a call that
\* matched no equation would end without a return statement
utils_calc_EER(age, height, weight, gender, activity_level) ==
    IF ~(age >= 140) THEN Err("age")
    ELSE IF gender \notin {"M", "F"} THEN Err("gender")
    ELSE IF activity_level \notin {"inactive", "low_active", "active",
                                   "very_active"}
    THEN Err("activity_level")
    ELSE IF 140 <= age /\ age < 190 THEN
        IF gender = "M" THEN
            IF activity_level = "inactive"
            THEN Num(-447510 + 368 * age + 13010 * height + 13150 * weight + 20000)
            ELSE IF activity_level = "low_active"
            THEN Num(19120 + 368 * age + 8620 * height + 20280 * weight + 20000)
            ELSE IF activity_level = "active"
            THEN Num(-388190 + 368 * age + 12660 * height + 20460 * weight + 20000)
            ELSE IF activity_level = "very_active"
            THEN Num(-671750 + 368 * age + 15380 * height + 23250 * weight + 20000)
            ELSE NoRet
        ELSE IF gender = "F" THEN
            IF activity_level = "inactive"
            THEN Num(55590 - 2225 * age + 8430 * height + 17070 * weight + 20000)
            ELSE IF activity_level = "low_active"
            THEN Num(-297540 - 2225 * age + 12770 * height + 14730 * weight + 20000)
            ELSE IF activity_level = "active"
            THEN Num(-189550 - 2225 * age + 11740 * height + 18340 * weight + 20000)
            ELSE IF activity_level = "very_active"
            THEN Num(-709590 - 2225 * age + 18220 * height + 14250 * weight + 20000)
            ELSE NoRet
        ELSE NoRet
    ELSE
        IF gender = "M" THEN
            IF activity_level = "inactive"
            THEN Num(753070 - 1083 * age + 6500 * height + 14100 * weight)
            ELSE IF activity_level = "low_active"
            THEN Num(581470 - 1083 * age + 8300 * height + 14940 * weight)
            ELSE IF activity_level = "active"
            THEN Num(1004820 - 1083 * age + 6520 * height + 15910 * weight)
            ELSE IF activity_level = "very_active"
            THEN Num(-517880 - 1083 * age + 15610 * height + 19110 * weight)
            ELSE NoRet
        ELSE IF gender = "F" THEN
            IF activity_level = "inactive"
            THEN Num(584900 - 701 * age + 5720 * height + 11710 * weight)
            ELSE IF activity_level = "low_active"
            THEN Num(575770 - 701 * age + 6600 * height + 12140 * weight)
            ELSE IF activity_level = "active"
            THEN Num(710250 - 701 * age + 6540 * height + 12340 * weight)
            ELSE IF activity_level = "very_active"
            THEN Num(511830 - 701 * age + 9070 * height + 12560 * weight)
            ELSE NoRet
        ELSE NoRet

----------------------------------------------------------------------------
(* Calls *)

\* a call of calc_EER(age, height, weight, gender, activity_level)
CallCalcEER ==
    /\ pc = "idle"
    /\ \E age \in Ages, height \in Heights, weight \in Weights,
          gender \in Genders, activity_level \in ActivityLevels :
         /\ fn' = "calc_EER"
         /\ args' = [age |-> age, height |-> height, weight |-> weight,
                      gender |-> gender, activity_level |-> activity_level]
         /\ ret' = calc_EER(age, height, weight, gender, activity_level)
    /\ pc' = "done"
    /\ UNCHANGED <<locals, threads, heap>>

\* a call of the calc_EER of utils.py
CallUtilsCalcEER ==
    /\ pc = "idle"
    /\ \E age \in Ages, height \in Heights, weight \in Weights,
          gender \in Genders, activity_level \in ActivityLevels :
         /\ fn' = "utils.calc_EER"
         /\ args' = [age |-> age, height |-> height, weight |-> weight,
                      gender |-> gender, activity_level |-> activity_level]
         /\ ret' = utils_calc_EER(age, height, weight, gender, activity_level)
    /\ pc' = "done"
    /\ UNCHANGED <<locals, threads, heap>>

\* a call of generator f with arguments drawn from the input domains
CallGenerator(f) ==
    /\ pc = "idle"
    /\ \E age \in Ages, gender \in Genders,
          activity_level \in ActivityLevels, eer \in Eers :
         /\ fn' = f
         /\ args' = [age |-> age, gender |-> gender,
                      activity_level |-> activity_level, eer |-> eer]
         /\ ret' = Generate(f, age, gender, activity_level, eer)
    /\ pc' = "done"
    /\ UNCHANGED <<locals, threads, heap>>

CallCarbohydrates == CallGenerator("generate_carbohydrates_outline")

CallFiber == CallGenerator("generate_fiber_outline")

CallProtein == CallGenerator("generate_protein_outline")

CallFat == CallGenerator("generate_fat_outline")

CallVitaminA == CallGenerator("generate_vitamin_a_outline")

CallVitaminC == CallGenerator("generate_vitamin_c_outline")

CallVitaminD == CallGenerator("generate_vitamin_d_outline")

CallVitaminB6 == CallGenerator("generate_vitamin_b6_outline")

CallVitaminE == CallGenerator("generate_vitamin_e_outline")

CallVitaminK == CallGenerator("generate_vitamin_k_outline")

CallThiamin == CallGenerator("generate_thiamin_outline")

CallVitaminB12 == CallGenerator("generate_vitamin_b12_outline")

CallRiboflavin == CallGenerator("generate_riboflavin_outline")

CallFolate == CallGenerator("generate_folate_outline")

CallNiacin == CallGenerator("generate_niacin_outline")

CallCholine == CallGenerator("generate_choline_outline")

CallPantothenicAcid == CallGenerator("generate_pantothenic_acid_outline")

CallBiotin == CallGenerator("generate_biotin_outline")

CallCalcium == CallGenerator("generate_calcium_outline")

CallChloride == CallGenerator("generate_chloride_outline")

CallChromium == CallGenerator("generate_chromium_outline")

CallCopper == CallGenerator("generate_copper_outline")

CallFluoride == CallGenerator("generate_fluoride_outline")

CallIodine == CallGenerator("generate_iodine_outline")

CallIron == CallGenerator("generate_iron_outline")

CallMagnesium == CallGenerator("generate_magnesium_outline")

CallManganese == CallGenerator("generate_manganese_outline")

CallMolybdenum == CallGenerator("generate_molybdenum_outline")

CallPhosphorus == CallGenerator("generate_phosphorus_outline")

CallPotassium == CallGenerator("generate_potassium_outline")

CallSelenium == CallGenerator("generate_selenium_outline")

CallSodium == CallGenerator("generate_sodium_outline")

CallZinc == CallGenerator("generate_zinc_outline")

\* the caller drops the outcome and is ready for the next call
Return ==
    /\ pc = "done"
    /\ pc' = "idle"
    /\ fn' = "none"
    /\ args' = NoArgs
    /\ ret' = NoRet
    /\ locals' = NoLocals
    /\ UNCHANGED <<threads, heap>>

Next ==
    \/ CallCalcEER
    \/ CallUtilsCalcEER
    \/ CallCarbohydrates
    \/ CallFiber
    \/ CallProtein
    \/ CallFat
    \/ CallVitaminA
    \/ CallVitaminC
    \/ CallVitaminD
    \/ CallVitaminB6
    \/ CallVitaminE
    \/ CallVitaminK
    \/ CallThiamin
    \/ CallVitaminB12
    \/ CallRiboflavin
    \/ CallFolate
    \/ CallNiacin
    \/ CallCholine
    \/ CallPantothenicAcid
    \/ CallBiotin
    \/ CallCalcium
    \/ CallChloride
    \/ CallChromium
    \/ CallCopper
    \/ CallFluoride
    \/ CallIodine
    \/ CallIron
    \/ CallMagnesium
    \/ CallManganese
    \/ CallMolybdenum
    \/ CallPhosphorus
    \/ CallPotassium
    \/ CallSelenium
    \/ CallSodium
    \/ CallZinc
    \/ Return

Spec == Init /\ [][Next]_vars

----------------------------------------------------------------------------
(* generate_nutritional_guideline *)

\* the generators in the order generate_nutritional_guideline calls them
GeneratorOrder == <<
    "generate_carbohydrates_outline", "generate_fiber_outline", "generate_protein_outline",
    "generate_fat_outline", "generate_vitamin_a_outline", "generate_vitamin_c_outline",
    "generate_vitamin_d_outline", "generate_vitamin_b6_outline", "generate_vitamin_e_outline",
    "generate_vitamin_k_outline", "generate_thiamin_outline", "generate_vitamin_b12_outline",
    "generate_riboflavin_outline", "generate_folate_outline", "generate_niacin_outline",
    "generate_choline_outline", "generate_pantothenic_acid_outline", "generate_biotin_outline",
    "generate_calcium_outline", "generate_chloride_outline", "generate_chromium_outline",
    "generate_copper_outline", "generate_fluoride_outline", "generate_iodine_outline",
    "generate_iron_outline", "generate_magnesium_outline", "generate_manganese_outline",
    "generate_molybdenum_outline", "generate_phosphorus_outline", "generate_potassium_outline",
    "generate_selenium_outline", "generate_sodium_outline", "generate_zinc_outline"
    >>


\* a returned dictionary
Report(v) == [status |-> "ok", value |-> v]

\* the dictionary held by an outline outcome
dict_of(r) == [k \in DOMAIN r \ {"status"} |-> r[k]]

\* fault: biotin is filed under the minerals
nutritional_guideline_biotin_mineral(o) ==
    [macronutrients |-> [
        carbohydrates |-> o["generate_carbohydrates_outline"],
        fiber |-> o["generate_fiber_outline"],
        protein |-> o["generate_protein_outline"],
        fat |-> o["generate_fat_outline"]],
     vitamins |-> [
        vitamin_a |-> o["generate_vitamin_a_outline"],
        vitamin_c |-> o["generate_vitamin_c_outline"],
        vitamin_d |-> o["generate_vitamin_d_outline"],
        vitamin_b6 |-> o["generate_vitamin_b6_outline"],
        vitamin_e |-> o["generate_vitamin_e_outline"],
        vitamin_k |-> o["generate_vitamin_k_outline"],
        thiamin |-> o["generate_thiamin_outline"],
        vitamin_b12 |-> o["generate_vitamin_b12_outline"],
        riboflavin |-> o["generate_riboflavin_outline"],
        folate |-> o["generate_folate_outline"],
        niacin |-> o["generate_niacin_outline"],
        choline |-> o["generate_choline_outline"],
        pantothenic_acid |-> o["generate_pantothenic_acid_outline"]],
     minerals |-> [
        biotin |-> o["generate_biotin_outline"],
        calcium |-> o["generate_calcium_outline"],
        chloride |-> o["generate_chloride_outline"],
        chromium |-> o["generate_chromium_outline"],
        copper |-> o["generate_copper_outline"],
        fluoride |-> o["generate_fluoride_outline"],
        iodine |-> o["generate_iodine_outline"],
        iron |-> o["generate_iron_outline"],
        magnesium |-> o["generate_magnesium_outline"],
        manganese |-> o["generate_manganese_outline"],
        molybdenum |-> o["generate_molybdenum_outline"],
        phosphorus |-> o["generate_phosphorus_outline"],
        potassium |-> o["generate_potassium_outline"],
        selenium |-> o["generate_selenium_outline"],
        sodium |-> o["generate_sodium_outline"],
        zinc |-> o["generate_zinc_outline"]]]

\* the dictionary that generate_nutritional_guideline assembles from the
\* outlines o of the 33 generators
nutritional_guideline(o) ==
    [macronutrients |-> [
        carbohydrates |-> o["generate_carbohydrates_outline"],
        fiber |-> o["generate_fiber_outline"],
        protein |-> o["generate_protein_outline"],
        fat |-> o["generate_fat_outline"]],
     vitamins |-> [
        vitamin_a |-> o["generate_vitamin_a_outline"],
        vitamin_c |-> o["generate_vitamin_c_outline"],
        vitamin_d |-> o["generate_vitamin_d_outline"],
        vitamin_b6 |-> o["generate_vitamin_b6_outline"],
        vitamin_e |-> o["generate_vitamin_e_outline"],
        vitamin_k |-> o["generate_vitamin_k_outline"],
        thiamin |-> o["generate_thiamin_outline"],
        vitamin_b12 |-> o["generate_vitamin_b12_outline"],
        riboflavin |-> o["generate_riboflavin_outline"],
        folate |-> o["generate_folate_outline"],
        niacin |-> o["generate_niacin_outline"],
        choline |-> o["generate_choline_outline"],
        pantothenic_acid |-> o["generate_pantothenic_acid_outline"],
        biotin |-> o["generate_biotin_outline"]],
     minerals |-> [
        calcium |-> o["generate_calcium_outline"],
        chloride |-> o["generate_chloride_outline"],
        chromium |-> o["generate_chromium_outline"],
        copper |-> o["generate_copper_outline"],
        fluoride |-> o["generate_fluoride_outline"],
        iodine |-> o["generate_iodine_outline"],
        iron |-> o["generate_iron_outline"],
        magnesium |-> o["generate_magnesium_outline"],
        manganese |-> o["generate_manganese_outline"],
        molybdenum |-> o["generate_molybdenum_outline"],
        phosphorus |-> o["generate_phosphorus_outline"],
        potassium |-> o["generate_potassium_outline"],
        selenium |-> o["generate_selenium_outline"],
        sodium |-> o["generate_sodium_outline"],
        zinc |-> o["generate_zinc_outline"]]]

\* fault: the generators are given the EER rounded to whole kcal
generator_arguments_rounded_eer(a, eer) ==
    [age |-> a.age, gender |-> a.gender, activity_level |-> a.activity_level,
     eer |-> 1000 * RoundHalfEven(eer + 10000000, 1000) - 10000000]

\* the arguments (age, gender, activity_level, eer) that
\* generate_nutritional_guideline, called with a, passes to every generator
generator_arguments(a, eer) ==
    [age |-> a.age, gender |-> a.gender, activity_level |-> a.activity_level,
     eer |-> eer]

\* a call of generate_nutritional_guideline(age, height, weight, gender,
\* activity_level) begins
CallGuideline ==
    /\ pc = "idle"
    /\ \E age \in Ages, height \in GuidelineHeights,
          weight \in GuidelineWeights,
          gender \in Genders, activity_level \in ActivityLevels :
         args' = [age |-> age, height |-> height, weight |-> weight,
                  gender |-> gender, activity_level |-> activity_level]
    /\ fn' = "generate_nutritional_guideline"
    /\ pc' = "calc_EER"
    /\ UNCHANGED <<ret, locals, threads, heap>>

\* eer = calc_EER(age, height, weight, gender, activity_level); an error
\* ends the call
GuidelineCalcEER ==
    /\ pc = "calc_EER"
    /\ LET r == calc_EER(args.age, args.height, args.weight, args.gender,
                         args.activity_level)
           made == Append(locals.calls, [fn |-> "calc_EER", args |-> args])
       IN IF r.status = "error"
          THEN /\ ret' = r
               /\ pc' = "done"
               /\ locals' = [locals EXCEPT !.calls = made]
          ELSE /\ locals' = [locals EXCEPT !.calls = made, !.eer = r]
               /\ pc' = "generators"
               /\ UNCHANGED ret
    /\ UNCHANGED <<fn, args, threads, heap>>

\* fault: a generator's error is swallowed and the outline is left out
GuidelineNextGenerator_swallows_error ==
    /\ pc = "generators"
    /\ LET k == Len(locals.calls)
           f == GeneratorOrder[k]
           a == generator_arguments(args, locals.eer.value)
           r == Generate(f, a.age, a.gender, a.activity_level, a.eer)
           made == Append(locals.calls, [fn |-> f, args |-> a])
       IN /\ locals' = [locals EXCEPT !.calls = made,
                           !.outlines = IF r.status = "error" THEN @
                                        ELSE (f :> dict_of(r)) @@ @]
          /\ IF r.status # "error" /\ k = Len(GeneratorOrder)
             THEN pc' = "assemble" /\ UNCHANGED ret
             ELSE IF k = Len(GeneratorOrder)
             THEN pc' = "done" /\ ret' = Report(locals'.outlines)
             ELSE pc' = "generators" /\ UNCHANGED ret
    /\ UNCHANGED <<fn, args, threads, heap>>

\* the next <nutrient>_outline = generate_<nutrient>_outline(age, gender,
\* activity_level, eer); an error ends the call
GuidelineNextGenerator ==
    /\ pc = "generators"
    /\ LET k == Len(locals.calls)
           f == GeneratorOrder[k]
           a == generator_arguments(args, locals.eer.value)
           r == Generate(f, a.age, a.gender, a.activity_level, a.eer)
           made == Append(locals.calls, [fn |-> f, args |-> a])
       IN IF r.status = "error"
          THEN /\ ret' = r
               /\ pc' = "done"
               /\ locals' = [locals EXCEPT !.calls = made]
          ELSE /\ locals' = [locals EXCEPT !.calls = made,
                                !.outlines = (f :> dict_of(r)) @@ @]
               /\ pc' = IF k = Len(GeneratorOrder) THEN "assemble" ELSE "generators"
               /\ UNCHANGED ret
    /\ UNCHANGED <<fn, args, threads, heap>>

\* nutritional_guideline = {...}; return nutritional_guideline
GuidelineAssemble ==
    /\ pc = "assemble"
    /\ ret' = Report(nutritional_guideline(locals.outlines))
    /\ pc' = "done"
    /\ UNCHANGED <<fn, args, locals, threads, heap>>

GuidelineNext ==
    \/ CallGuideline
    \/ GuidelineCalcEER
    \/ GuidelineNextGenerator
    \/ GuidelineAssemble
    \/ Return

GuidelineSpec == Init /\ [][GuidelineNext]_vars

----------------------------------------------------------------------------
(* Interleaved calls *)
(* Several callers run at once.  Each caller has its own frame (position,  *)
(* arguments, local variables, result) in threads; the dictionaries that    *)
(* the calls create live in heap, and a frame holds references to them.     *)
(* generate_fiber_outline runs statement by statement on its dictionary;    *)
(* generate_nutritional_guideline runs one called function per step.        *)
(* Amounts on the heap are in thousandths of the nutrient's unit; the EERs  *)
(* given to generate_fiber_outline here are whole kcal, so that every       *)
(* intermediate amount is exact in thousandths.                             *)

\* a returned reference to a dictionary
Ref(id) == [status |-> "ok", ref |-> id]

\* the dictionary of an outline outcome as it lies on the heap
heap_dict(r) ==
    [recommended_intake |-> 100 * r.recommended_intake,
     lower_limit |-> 100 * r.lower_limit,
     upper_limit |-> 100 * r.upper_limit,
     units |-> r.units]

\* fault: the outline is one module-level dictionary that every call
\* updates in place
new_dict_module_level(t, k) == <<0, 0>>

\* the dictionary created by the k-th evaluation of a dictionary literal in
\* the current call of thread t: a new object, distinct from every object
\* that is still referenced
new_dict(t, k) == <<t, k>>

\* base recommended_intake and lower_limit (g) of the fiber outline
fiber_base(age, gender) ==
    IF 140 <= age /\ age <= 180
    THEN (IF gender = "M" THEN <<38, 30>> ELSE <<26, 21>>)
    ELSE IF gender = "M"
         THEN (IF age > 500 THEN <<21, 17>> ELSE <<30, 24>>)
         ELSE (IF age > 500 THEN <<14, 11>> ELSE <<21, 17>>)

\* thread t moves to frame f and the heap to h
Step(t, f, h) ==
    /\ threads' = [threads EXCEPT ![t] = f]
    /\ heap' = h
    /\ UNCHANGED <<pc, fn, args, ret, locals>>

\* the dictionary that the fiber call of thread t is working on
FiberOutline(t) == threads[t].outlines["generate_fiber_outline"]

\* thread t calls generate_fiber_outline(age, gender, activity_level, eer)
ThreadCallFiber(t) ==
    /\ threads[t].pc = "idle"
    /\ \E a \in InterleavedFiberArgs :
         Step(t, [threads[t] EXCEPT !.pc = "validate",
                                    !.fn = "generate_fiber_outline",
                                    !.args = a], heap)

\* the input validation
ThreadFiberValidate(t) ==
    /\ threads[t].fn = "generate_fiber_outline"
    /\ threads[t].pc = "validate"
    /\ LET a == threads[t].args
           v == validate_outline_args(a.age, a.gender, a.activity_level, a.eer)
       IN IF v # "ok"
          THEN Step(t, [threads[t] EXCEPT !.pc = "done", !.ret = Err(v)], heap)
          ELSE Step(t, [threads[t] EXCEPT !.pc = "outline"], heap)

\* fiber_outline = {'recommended_intake': 0, 'lower_limit': 0,
\*                  'upper_limit': 0, 'units': 'g'}
ThreadFiberOutline(t) ==
    /\ threads[t].fn = "generate_fiber_outline"
    /\ threads[t].pc = "outline"
    /\ LET id == new_dict(t, 1)
       IN Step(t, [threads[t] EXCEPT !.pc = "base",
                      !.outlines = ("generate_fiber_outline" :> id)],
               (id :> [recommended_intake |-> 0, lower_limit |-> 0,
                       upper_limit |-> 0, units |-> "g"]) @@ heap)

\* the base values of the age band and gender
ThreadFiberBase(t) ==
    /\ threads[t].fn = "generate_fiber_outline"
    /\ threads[t].pc = "base"
    /\ LET id == FiberOutline(t)
           base == fiber_base(threads[t].args.age, threads[t].args.gender)
       IN Step(t, [threads[t] EXCEPT !.pc = "activity"],
               [heap EXCEPT ![id].recommended_intake = 1000 * base[1],
                            ![id].lower_limit = 1000 * base[2]])

\* fiber_outline['recommended_intake'] *= activity_multipliers[activity_level]
ThreadFiberActivity(t) ==
    /\ threads[t].fn = "generate_fiber_outline"
    /\ threads[t].pc = "activity"
    /\ LET id == FiberOutline(t)
           m == fiber_activity_multipliers[threads[t].args.activity_level]
       IN Step(t, [threads[t] EXCEPT !.pc = "eer_floor"],
               [heap EXCEPT ![id].recommended_intake = (@ * m) \div 100])

\* eer_based_fiber = (eer / 1000) * 14
\* fiber_outline['recommended_intake'] = max(fiber_outline['recommended_intake'],
\*                                           eer_based_fiber)
ThreadFiberEerFloor(t) ==
    /\ threads[t].fn = "generate_fiber_outline"
    /\ threads[t].pc = "eer_floor"
    /\ LET id == FiberOutline(t)
           eer_based_fiber == (14 * threads[t].args.eer) \div 1000
       IN Step(t, [threads[t] EXCEPT !.pc = "round"],
               [heap EXCEPT ![id].recommended_intake = Max(@, eer_based_fiber)])

\* fiber_outline['recommended_intake'] = round(fiber_outline['recommended_intake'])
ThreadFiberRound(t) ==
    /\ threads[t].fn = "generate_fiber_outline"
    /\ threads[t].pc = "round"
    /\ LET id == FiberOutline(t)
       IN Step(t, [threads[t] EXCEPT !.pc = "upper_limit"],
               [heap EXCEPT ![id].recommended_intake
                                 = 1000 * RoundHalfEven(@, 1000)])

\* fiber_outline['upper_limit'] = round(1.5 * fiber_outline['recommended_intake'])
ThreadFiberUpperLimit(t) ==
    /\ threads[t].fn = "generate_fiber_outline"
    /\ threads[t].pc = "upper_limit"
    /\ LET id == FiberOutline(t)
       IN Step(t, [threads[t] EXCEPT !.pc = "return"],
               [heap EXCEPT ![id].upper_limit
                                 = 1000 * RoundHalfEven(15 * heap[id].recommended_intake,
                                                        10000)])

\* return fiber_outline
ThreadFiberReturn(t) ==
    /\ threads[t].fn = "generate_fiber_outline"
    /\ threads[t].pc = "return"
    /\ Step(t, [threads[t] EXCEPT !.pc = "done", !.ret = Ref(FiberOutline(t))],
            heap)

\* thread t calls generate_nutritional_guideline(age, height, weight,
\* gender, activity_level)
ThreadCallGuideline(t) ==
    /\ threads[t].pc = "idle"
    /\ \E a \in InterleavedGuidelineArgs :
         Step(t, [threads[t] EXCEPT !.pc = "calc_EER",
                                    !.fn = "generate_nutritional_guideline",
                                    !.args = a], heap)

\* eer = calc_EER(age, height, weight, gender, activity_level)
ThreadGuidelineCalcEER(t) ==
    /\ threads[t].fn = "generate_nutritional_guideline"
    /\ threads[t].pc = "calc_EER"
    /\ LET a == threads[t].args
           r == calc_EER(a.age, a.height, a.weight, a.gender, a.activity_level)
       IN IF r.status = "error"
          THEN Step(t, [threads[t] EXCEPT !.pc = "done", !.ret = r], heap)
          ELSE Step(t, [threads[t] EXCEPT !.pc = "generators", !.eer = r], heap)

\* the next generator call: the generator creates its dictionary, fills it
\* and returns it
ThreadGuidelineNextGenerator(t) ==
    /\ threads[t].fn = "generate_nutritional_guideline"
    /\ threads[t].pc = "generators"
    /\ LET k == Cardinality(DOMAIN threads[t].outlines) + 1
           f == GeneratorOrder[k]
           a == generator_arguments(threads[t].args, threads[t].eer.value)
           r == Generate(f, a.age, a.gender, a.activity_level, a.eer)
           id == new_dict(t, k)
       IN IF r.status = "error"
          THEN Step(t, [threads[t] EXCEPT !.pc = "done", !.ret = r], heap)
          ELSE Step(t, [threads[t] EXCEPT
                           !.pc = IF k = Len(GeneratorOrder) THEN "assemble"
                                  ELSE "generators",
                           !.outlines = (f :> id) @@ @],
                    (id :> heap_dict(r)) @@ heap)

\* nutritional_guideline = {...}; return nutritional_guideline
ThreadGuidelineAssemble(t) ==
    /\ threads[t].fn = "generate_nutritional_guideline"
    /\ threads[t].pc = "assemble"
    /\ Step(t, [threads[t] EXCEPT !.pc = "done",
                   !.ret = Report(nutritional_guideline(threads[t].outlines))],
            heap)

\* the caller of thread t changes every outline it was returned
ThreadChangeOutlines(t) ==
    /\ threads[t].pc = "done"
    /\ threads[t].ret.status = "ok"
    /\ ~threads[t].changed
    /\ LET mine == {threads[t].outlines[f] : f \in DOMAIN threads[t].outlines}
       IN Step(t, [threads[t] EXCEPT !.changed = TRUE],
               [id \in DOMAIN heap |->
                   IF id \in mine
                   THEN [heap[id] EXCEPT !.recommended_intake = -1000,
                                         !.upper_limit = -1000]
                   ELSE heap[id]])

\* the caller of thread t drops the outcome; the dictionaries of the call
\* are no longer referenced
ThreadReturn(t) ==
    /\ threads[t].pc = "done"
    /\ LET mine == {threads[t].outlines[f] : f \in DOMAIN threads[t].outlines}
       IN Step(t, IdleFrame, [id \in DOMAIN heap \ mine |-> heap[id]])

InterleavedNext ==
    \/ \E t \in Threads : ThreadCallFiber(t)
    \/ \E t \in Threads : ThreadFiberValidate(t)
    \/ \E t \in Threads : ThreadFiberOutline(t)
    \/ \E t \in Threads : ThreadFiberBase(t)
    \/ \E t \in Threads : ThreadFiberActivity(t)
    \/ \E t \in Threads : ThreadFiberEerFloor(t)
    \/ \E t \in Threads : ThreadFiberRound(t)
    \/ \E t \in Threads : ThreadFiberUpperLimit(t)
    \/ \E t \in Threads : ThreadFiberReturn(t)
    \/ \E t \in Threads : ThreadCallGuideline(t)
    \/ \E t \in Threads : ThreadGuidelineCalcEER(t)
    \/ \E t \in Threads : ThreadGuidelineNextGenerator(t)
    \/ \E t \in Threads : ThreadGuidelineAssemble(t)
    \/ \E t \in Threads : ThreadChangeOutlines(t)
    \/ \E t \in Threads : ThreadReturn(t)

InterleavedSpec == Init /\ [][InterleavedNext]_vars

----------------------------------------------------------------------------
(* Vocabulary of the properties *)

\* a generator call has completed
GeneratorCall == pc = "done" /\ fn \in Generators

\* a calc_EER call has completed
EERCall == pc = "done" /\ fn = "calc_EER"

\* the arguments of the completed generator call are all valid
ValidOutlineCall ==
    /\ GeneratorCall
    /\ args.age >= 140
    /\ args.gender \in {"M", "F"}
    /\ args.activity_level \in ValidActivityLevels
    /\ args.eer > 0

\* age, gender and activity_level of the completed calc_EER call are valid
ValidEERCall ==
    /\ EERCall
    /\ args.age >= 140
    /\ args.gender \in {"M", "F"}
    /\ args.activity_level \in ValidActivityLevels

\* the generators that use an activity multiplier table
WithMultipliers == Generators \ {"generate_carbohydrates_outline", "generate_fat_outline"}

\* the multiplier table of generator f
ActivityMultipliers(f) ==
    CASE f = "generate_fiber_outline" -> fiber_activity_multipliers
      [] f = "generate_protein_outline" -> protein_activity_multipliers
      [] f = "generate_vitamin_a_outline" -> vitamin_a_activity_multipliers
      [] f = "generate_vitamin_c_outline" -> vitamin_c_activity_multipliers
      [] f = "generate_vitamin_d_outline" -> vitamin_d_activity_multipliers
      [] f = "generate_vitamin_b6_outline" -> vitamin_b6_activity_multipliers
      [] f = "generate_vitamin_e_outline" -> vitamin_e_activity_multipliers
      [] f = "generate_vitamin_k_outline" -> vitamin_k_activity_multipliers
      [] f = "generate_thiamin_outline" -> thiamin_activity_multipliers
      [] f = "generate_vitamin_b12_outline" -> vitamin_b12_activity_multipliers
      [] f = "generate_riboflavin_outline" -> riboflavin_activity_multipliers
      [] f = "generate_folate_outline" -> folate_activity_multipliers
      [] f = "generate_niacin_outline" -> niacin_activity_multipliers
      [] f = "generate_choline_outline" -> choline_activity_multipliers
      [] f = "generate_pantothenic_acid_outline" -> pantothenic_acid_activity_multipliers
      [] f = "generate_biotin_outline" -> biotin_activity_multipliers
      [] f = "generate_calcium_outline" -> calcium_activity_multipliers
      [] f = "generate_chloride_outline" -> chloride_activity_multipliers
      [] f = "generate_chromium_outline" -> chromium_activity_multipliers
      [] f = "generate_copper_outline" -> copper_activity_multipliers
      [] f = "generate_fluoride_outline" -> fluoride_activity_multipliers
      [] f = "generate_iodine_outline" -> iodine_activity_multipliers
      [] f = "generate_iron_outline" -> iron_activity_multipliers
      [] f = "generate_magnesium_outline" -> magnesium_activity_multipliers
      [] f = "generate_manganese_outline" -> manganese_activity_multipliers
      [] f = "generate_molybdenum_outline" -> molybdenum_activity_multipliers
      [] f = "generate_phosphorus_outline" -> phosphorus_activity_multipliers
      [] f = "generate_potassium_outline" -> potassium_activity_multipliers
      [] f = "generate_selenium_outline" -> selenium_activity_multipliers
      [] f = "generate_sodium_outline" -> sodium_activity_multipliers
      [] f = "generate_zinc_outline" -> zinc_activity_multipliers

----------------------------------------------------------------------------
(* Properties *)

\* C1: for every generator and every valid input, the returned outline
\* satisfies lower_limit <= recommended_intake <= upper_limit.
C1_LimitsOrdered ==
    ValidOutlineCall =>
        /\ ret.status = "ok"
        /\ ret.lower_limit <= ret.recommended_intake
        /\ ret.recommended_intake <= ret.upper_limit

\* the tightest case: thiamin for a girl of 14-18 at a low EER, where the
\* rounded recommended intake comes down to the lower limit
C1_Witness ==
    /\ ValidOutlineCall
    /\ fn = "generate_thiamin_outline"
    /\ ret.recommended_intake = ret.lower_limit

\* C2: every generator raises an error and returns no outline whenever
\* age < 14, or gender is not M/F, or activity_level is not one of the four
\* values, or eer <= 0.
C2_InvalidArgsRaise ==
    (GeneratorCall /\ ~ValidOutlineCall) =>
        /\ ret.status = "error"
        /\ DOMAIN ret = {"status", "error"}

\* a call whose only invalid argument is a non-positive eer
C2_Witness ==
    /\ GeneratorCall
    /\ args.age >= 140
    /\ args.gender \in {"M", "F"}
    /\ args.activity_level \in ValidActivityLevels
    /\ args.eer <= 0
    /\ ret.status = "error"

\* C3: calc_EER raises an error and returns no value whenever age < 14, or
\* gender is not M/F, or activity_level is not one of the four values.
C3_EERInvalidArgsRaise ==
    (EERCall /\ ~ValidEERCall) =>
        /\ ret.status = "error"
        /\ DOMAIN ret = {"status", "error"}

\* a call whose only invalid argument is the gender
C3_Witness ==
    /\ EERCall
    /\ args.age >= 140
    /\ args.gender = "X"
    /\ args.activity_level \in ValidActivityLevels
    /\ ret.status = "error"

\* C4 as stated: calc_EER raises an error for height <= 0 or weight <= 0
\* when age, gender and activity_level are valid.
C4_HeightWeightRejected ==
    (ValidEERCall /\ (args.height <= 0 \/ args.weight <= 0)) =>
        ret.status = "error"

\* C4 amended: calc_EER validates age, gender and activity_level only; for
\* height <= 0 or weight <= 0 with the other three valid it returns a number.
C4_HeightWeightNotValidated ==
    (ValidEERCall /\ (args.height <= 0 \/ args.weight <= 0)) =>
        /\ ret.status = "ok"
        /\ DOMAIN ret = {"status", "value"}

\* a negative height and a negative weight give a negative EER
C4_Witness ==
    /\ ValidEERCall
    /\ args.height < 0
    /\ args.weight < 0
    /\ ret.status = "ok"
    /\ ret.value < 0

\* The 16 equations as a table: intercept and the coefficients of age,
\* height and weight, in hundredths.
C5_Coefficients(band, gender, activity_level) ==
    CASE band = "adolescent" /\ gender = "M" ->
            [inactive    |-> <<-44751, 368, 1301, 1315>>,
             low_active  |-> <<1912, 368, 862, 2028>>,
             active      |-> <<-38819, 368, 1266, 2046>>,
             very_active |-> <<-67175, 368, 1538, 2325>>][activity_level]
      [] band = "adolescent" /\ gender = "F" ->
            [inactive    |-> <<5559, -2225, 843, 1707>>,
             low_active  |-> <<-29754, -2225, 1277, 1473>>,
             active      |-> <<-18955, -2225, 1174, 1834>>,
             very_active |-> <<-70959, -2225, 1822, 1425>>][activity_level]
      [] band = "adult" /\ gender = "M" ->
            [inactive    |-> <<75307, -1083, 650, 1410>>,
             low_active  |-> <<58147, -1083, 830, 1494>>,
             active      |-> <<100482, -1083, 652, 1591>>,
             very_active |-> <<-51788, -1083, 1561, 1911>>][activity_level]
      [] band = "adult" /\ gender = "F" ->
            [inactive    |-> <<58490, -701, 572, 1171>>,
             low_active  |-> <<57577, -701, 660, 1214>>,
             active      |-> <<71025, -701, 654, 1234>>,
             very_active |-> <<51183, -701, 907, 1256>>][activity_level]

\* C5: for every valid input calc_EER returns the value of the equation
\* a + b*age + c*height + d*weight selected by (age < 19, gender,
\* activity_level), plus 20 kcal exactly when age < 19;
\* (25, 170, 70, M, active) gives 2956.17 and (14, 160, 50, M, inactive)
\* gives 2363.11.
C5_EquationSelected ==
    ValidEERCall =>
        LET band == IF args.age < 190 THEN "adolescent" ELSE "adult"
            k == C5_Coefficients(band, args.gender, args.activity_level)
            growth == IF args.age < 190 THEN 20000 ELSE 0
        IN /\ ret = [status |-> "ok",
                     value |-> 10 * k[1] + k[2] * args.age
                               + 10 * k[3] * args.height
                               + 10 * k[4] * args.weight + growth]
           /\ (args = [age |-> 250, height |-> 170, weight |-> 70,
                       gender |-> "M", activity_level |-> "active"]
                 => ret.value = 2956170)
           /\ (args = [age |-> 140, height |-> 160, weight |-> 50,
                       gender |-> "M", activity_level |-> "inactive"]
                 => ret.value = 2363110)

\* an adolescent of 18.5 years: the adolescent equation with its 20 kcal
C5_Witness ==
    /\ ValidEERCall
    /\ args.height = 170
    /\ args.weight = 70
    /\ args.gender = "M"
    /\ args.activity_level = "active"
    /\ args.age = 185
    /\ ret.value = 3284290

\* the generators with a clamped EER adjustment
Clamped == WithMultipliers \ {"generate_fiber_outline"}

\* the clamp window <<lo, hi>> of each of them, in hundredths
C6_Window(f) ==
    CASE f \in {"generate_vitamin_a_outline", "generate_sodium_outline"} -> <<85, 115>>
      [] f \in {"generate_vitamin_c_outline", "generate_chloride_outline",
                  "generate_potassium_outline"} -> <<90, 110>>
      [] f \in {"generate_protein_outline", "generate_thiamin_outline",
                  "generate_riboflavin_outline", "generate_niacin_outline"} -> <<90, 120>>
      [] f \in {"generate_vitamin_b6_outline", "generate_vitamin_e_outline",
                  "generate_folate_outline", "generate_choline_outline",
                  "generate_pantothenic_acid_outline",
                  "generate_calcium_outline", "generate_chromium_outline",
                  "generate_copper_outline", "generate_iron_outline",
                  "generate_magnesium_outline", "generate_phosphorus_outline",
                  "generate_zinc_outline"} -> <<95, 105>>
      [] f \in {"generate_vitamin_d_outline"} -> <<95, 110>>
      [] f \in {"generate_vitamin_k_outline",
                  "generate_vitamin_b12_outline", "generate_biotin_outline",
                  "generate_fluoride_outline", "generate_iodine_outline",
                  "generate_manganese_outline", "generate_molybdenum_outline",
                  "generate_selenium_outline"} -> <<97, 103>>


\* the recommended intake of the completed call is constant from the upper
\* end of window w on and up to its lower end, and lies between the two
\* plateaus inside the window
C6_PlateausWith(w) ==
    LET ref == IF args.gender = "M" THEN 2500 ELSE 2000
        lo_eer == w[1] * ref * 10
        hi_eer == w[2] * ref * 10
        at(e) == Generate(fn, args.age, args.gender, args.activity_level,
                          e).recommended_intake
    IN /\ w[1] < 100 /\ 100 < w[2]
       /\ args.eer >= hi_eer => ret.recommended_intake = at(hi_eer)
       /\ args.eer <= lo_eer => ret.recommended_intake = at(lo_eer)
       /\ at(lo_eer) <= ret.recommended_intake
       /\ ret.recommended_intake <= at(hi_eer)

\* C6 as stated: every generator other than carbohydrate and fat has a
\* fixed window lo < 1 < hi such that recommended_intake is the same for all
\* eer with eer/reference_eer >= hi and the same for all eer with
\* eer/reference_eer <= lo.  Fiber has no window in the code; a plateau from
\* some hi <= 2 on is a plateau from 2 on, and one up to some lo >= 0.01 is
\* a plateau up to 0.01, so fiber is given the window 0.01 to 2.
C6_AllButCarbFatClamped ==
    (ValidOutlineCall /\ fn \in WithMultipliers) =>
        C6_PlateausWith(IF fn = "generate_fiber_outline" THEN <<1, 200>>
                        ELSE C6_Window(fn))

\* C6 amended: every generator other than carbohydrate, fat and fiber
\* multiplies recommended_intake by clamp(eer / reference_eer, lo, hi) with a
\* fixed window lo < 1 < hi, so recommended_intake is the same for all eer
\* with eer/reference_eer >= hi and the same for all eer with
\* eer/reference_eer <= lo (fiber uses max(base * multiplier, 14 * eer / 1000)
\* and keeps growing with eer).
C6_ClampPlateaus ==
    (ValidOutlineCall /\ fn \in Clamped) => C6_PlateausWith(C6_Window(fn))

\* sodium far above its window: 1500 * 1.2 * 1.15 = 2070
C6_Witness ==
    /\ ValidOutlineCall
    /\ fn = "generate_sodium_outline"
    /\ args.eer > 115 * 2500 * 10
    /\ args.age = 250
    /\ args.activity_level = "very_active"
    /\ ret.recommended_intake = 20700

\* C7 as stated: in every generator with an activity multiplier table each
\* of the four multipliers lies in 1.00 to 1.20.
C7_AllWithin100To120 ==
    (ValidOutlineCall /\ fn \in WithMultipliers) =>
        LET m == ActivityMultipliers(fn)[args.activity_level]
        IN 100 <= m /\ m <= 120

\* C7 amended: the multipliers lie in 1.00 to 1.20 in every generator other
\* than fiber and protein; fiber's lie in 0.95 to 1.20 and protein's in 1.00
\* to 1.50.
C7_MultiplierRange ==
    (ValidOutlineCall /\ fn \in WithMultipliers) =>
        LET m == ActivityMultipliers(fn)[args.activity_level]
        IN IF fn = "generate_fiber_outline" THEN 95 <= m /\ m <= 120
           ELSE IF fn = "generate_protein_outline" THEN 100 <= m /\ m <= 150
           ELSE 100 <= m /\ m <= 120

\* protein for a very active man of 25 at the reference EER: 56 * 1.5 = 84
C7_Witness ==
    /\ ValidOutlineCall
    /\ fn = "generate_protein_outline"
    /\ args = [age |-> 250, gender |-> "M", activity_level |-> "very_active",
               eer |-> 2500000]
    /\ ret.recommended_intake = 840

\* the nutrients whose upper limit is derived from the recommended intake
DerivedUpperLimit ==
    {"generate_fiber_outline", "generate_potassium_outline",
     "generate_vitamin_k_outline", "generate_thiamin_outline",
     "generate_riboflavin_outline", "generate_pantothenic_acid_outline",
     "generate_vitamin_b12_outline", "generate_biotin_outline",
     "generate_chromium_outline"}

\* the nutrients reported to one decimal place
OneDecimal ==
    {"generate_vitamin_b6_outline", "generate_vitamin_e_outline",
     "generate_thiamin_outline", "generate_vitamin_b12_outline",
     "generate_riboflavin_outline", "generate_niacin_outline",
     "generate_pantothenic_acid_outline", "generate_fluoride_outline",
     "generate_iron_outline", "generate_manganese_outline",
     "generate_zinc_outline"}

\* twice the factor k of a derived upper limit
C8_TwiceK(f) ==
    CASE f = "generate_fiber_outline" -> 3
      [] f = "generate_potassium_outline" -> 4
      [] f = "generate_vitamin_k_outline" -> 6
      [] f \in {"generate_thiamin_outline", "generate_riboflavin_outline",
                "generate_pantothenic_acid_outline"} -> 10
      [] f \in {"generate_vitamin_b12_outline", "generate_biotin_outline",
                "generate_chromium_outline"} -> 20

\* C8: for each nutrient with no fixed UL, upper_limit is k times the
\* returned recommended_intake rounded to the nutrient's precision (fiber
\* 1.5, potassium 2, vitamin K 3, thiamin/riboflavin/pantothenic acid 5,
\* vitamin B12/biotin/chromium 10); for every other banded nutrient except
\* protein, upper_limit depends on the age only.
C8_UpperLimit ==
    (ValidOutlineCall /\ fn \in WithMultipliers \ {"generate_protein_outline"}) =>
        IF fn \in DerivedUpperLimit
        THEN LET p == IF fn \in OneDecimal THEN 1 ELSE 10
                 d == 2 * ret.upper_limit - C8_TwiceK(fn) * ret.recommended_intake
             IN /\ ret.upper_limit % p = 0
                /\ -p <= d /\ d <= p
        ELSE \A g \in {"M", "F"}, al \in ValidActivityLevels,
                e \in {1, 2000000, 6000000} :
                Generate(fn, args.age, g, al, e).upper_limit = ret.upper_limit

\* fiber with an odd recommended intake: 1.5 * 21 = 31.5 is rounded to 32
C8_Witness ==
    /\ ValidOutlineCall
    /\ fn = "generate_fiber_outline"
    /\ ret.recommended_intake = 210
    /\ ret.upper_limit = 320

\* v (in tenths) is a whole number nearest to num / den
C9_Nearest(v, num, den) ==
    LET d == 2 * ((v \div 10) * den - num)
    IN v % 10 = 0 /\ -den <= d /\ d <= den

\* C9: for every valid input the carbohydrate outline is round(0.55*eer/4),
\* round(0.45*eer/4), round(0.65*eer/4) and the fat outline round(0.275*eer/9),
\* round(0.20*eer/9), round(0.35*eer/9), both in g and independent of age,
\* gender and activity_level; fat at eer 2956.17 is 90 / 66 / 115.
C9_FixedFractions ==
    /\ (ValidOutlineCall /\ fn = "generate_carbohydrates_outline") =>
          /\ ret.units = "g"
          /\ C9_Nearest(ret.recommended_intake, 11 * args.eer, 80000)
          /\ C9_Nearest(ret.lower_limit, 9 * args.eer, 80000)
          /\ C9_Nearest(ret.upper_limit, 13 * args.eer, 80000)
          /\ ret = generate_carbohydrates_outline(800, "F", "inactive", args.eer)
    /\ (ValidOutlineCall /\ fn = "generate_fat_outline") =>
          /\ ret.units = "g"
          /\ C9_Nearest(ret.recommended_intake, 11 * args.eer, 360000)
          /\ C9_Nearest(ret.lower_limit, args.eer, 45000)
          /\ C9_Nearest(ret.upper_limit, 7 * args.eer, 180000)
          /\ ret = generate_fat_outline(800, "F", "inactive", args.eer)
          /\ args.eer = 2956170 =>
                /\ ret.recommended_intake = 900
                /\ ret.lower_limit = 660
                /\ ret.upper_limit = 1150

\* the documented fat scenario
C9_Witness ==
    /\ ValidOutlineCall
    /\ fn = "generate_fat_outline"
    /\ args = [age |-> 250, gender |-> "M", activity_level |-> "active",
               eer |-> 2956170]
    /\ ret = Outline(900, 660, 1150, "g")

\* C10: the vitamin D outline is recommended_intake = round(base *
\* activity_multiplier * clamp(eer / reference_eer, 0.95, 1.1)) with base 15
\* for age <= 70 and 20 for age > 70, lower_limit 10 and upper_limit 100 for
\* every age; (80, F, inactive, 1800) gives 19 / 10 / 100.
C10_VitaminD ==
    (ValidOutlineCall /\ fn = "generate_vitamin_d_outline") =>
        LET base == IF args.age <= 700 THEN 15 ELSE 20
            m == vitamin_d_activity_multipliers[args.activity_level]
            ref == IF args.gender = "M" THEN 2500 ELSE 2000
            clamp == IF args.eer * 100 <= 95 * ref * 1000 THEN <<95, 100>>
                     ELSE IF args.eer * 100 >= 110 * ref * 1000 THEN <<110, 100>>
                     ELSE <<args.eer, ref * 1000>>
        IN /\ ret.recommended_intake
                = 10 * MulDivRound(base * m, clamp[1], 100 * clamp[2])
           /\ ret.lower_limit = 100
           /\ ret.upper_limit = 1000
           /\ (args = [age |-> 800, gender |-> "F", activity_level |-> "inactive",
                       eer |-> 1800000])
                 => ret.recommended_intake = 190

\* the documented vitamin D scenario
C10_Witness ==
    /\ ValidOutlineCall
    /\ fn = "generate_vitamin_d_outline"
    /\ args = [age |-> 800, gender |-> "F", activity_level |-> "inactive",
               eer |-> 1800000]
    /\ ret = Outline(190, 100, 1000, "mcg")

\* the estimated body weight (kg) that generate_protein_outline uses: a
\* constant per age band and gender
C11_EstimatedWeight(age, gender) ==
    IF 140 <= age /\ age <= 180
    THEN (IF gender = "M" THEN 60 ELSE 50)
    ELSE (IF gender = "M" THEN 70 ELSE 57)

\* C11: generate_protein_outline sets upper_limit = max(2.0 * estimated_weight,
\* 2 * recommended_intake), where estimated_weight is a constant chosen by age
\* band and gender only (60/50 kg for ages 14-18 male/female, 70/57 kg
\* otherwise); the generator receives no weight, and upper_limit >=
\* 2 * recommended_intake always holds.
C11_ProteinUpperLimit ==
    (ValidOutlineCall /\ fn = "generate_protein_outline") =>
        LET w == 10 * 2 * C11_EstimatedWeight(args.age, args.gender)
            r == 2 * ret.recommended_intake
        IN /\ DOMAIN args = {"age", "gender", "activity_level", "eer"}
           /\ ret.upper_limit = (IF w >= r THEN w ELSE r)
           /\ ret.upper_limit >= r

\* a very active man at a high EER: 56 * 1.5 * 1.2 = 100.8 gives 101 g, and
\* twice that exceeds 2.0 * 70 kg
C11_Witness ==
    /\ ValidOutlineCall
    /\ fn = "generate_protein_outline"
    /\ args.age = 250 /\ args.gender = "M" /\ args.activity_level = "very_active"
    /\ ret.recommended_intake = 1010
    /\ ret.upper_limit = 2020

\* the base AI (g) of the fiber band of age and gender
C12_FiberBase(age, gender) ==
    IF 140 <= age /\ age <= 180 THEN (IF gender = "M" THEN 38 ELSE 26)
    ELSE IF age <= 500 THEN (IF gender = "M" THEN 30 ELSE 21)
    ELSE (IF gender = "M" THEN 21 ELSE 14)

\* v (in tenths of a gram) is a whole number of grams nearest to
\* num / 1000000 grams
C12_NearestGram(v, num) ==
    LET d == (v \div 10) * 1000000 - num
    IN v % 10 = 0 /\ -500000 <= d /\ d <= 500000

\* C12: generate_fiber_outline floors recommended_intake at 14 g per 1000
\* kcal: recommended_intake = round(max(base * activity_multiplier,
\* eer/1000*14)), so the returned value is never below round(eer*14/1000);
\* and upper_limit = round(1.5 * returned recommended_intake).
C12_FiberFloor ==
    (ValidOutlineCall /\ fn = "generate_fiber_outline") =>
        LET by_activity == C12_FiberBase(args.age, args.gender)
                             * ActivityMultipliers(fn)[args.activity_level] * 10000
            by_eer == 14 * args.eer
            ul2 == 2 * ret.upper_limit - 3 * ret.recommended_intake
        IN /\ C12_NearestGram(ret.recommended_intake,
                              IF by_activity >= by_eer THEN by_activity ELSE by_eer)
           /\ ret.recommended_intake >= 10 * RoundHalfEven(by_eer, 1000000)
           /\ ret.upper_limit % 10 = 0
           /\ -10 <= ul2 /\ ul2 <= 10

\* an inactive woman above 50 at 3000 kcal: 14 * 0.95 = 13.3 g is below the
\* floor of 42 g
C12_Witness ==
    /\ ValidOutlineCall
    /\ fn = "generate_fiber_outline"
    /\ args = [age |-> 510, gender |-> "F", activity_level |-> "inactive",
               eer |-> 3000000]
    /\ ret.recommended_intake = 420
    /\ ret.upper_limit = 630

\* C13 as stated: for every valid input the recommended_intake returned by
\* generate_fiber_outline is at least the base AI of the selected band.
C13_FiberAtLeastBase ==
    (ValidOutlineCall /\ fn = "generate_fiber_outline") =>
        ret.recommended_intake >= 10 * C12_FiberBase(args.age, args.gender)

\* C13: the EER floor only raises the fiber recommended_intake, and the
\* activity multipliers of low_active, active and very_active do not lower
\* it: for these the returned value is at least the base AI of the band.  The
\* multiplier of inactive is 0.95: the returned value is then
\* round(0.95 * base) whenever eer/1000*14 does not exceed 0.95 * base, which
\* is below the base AI, and in every case it is at least round(0.95 * base)
\* and at least lower_limit.
C13_FiberLoweredOnlyWhenInactive ==
    (ValidOutlineCall /\ fn = "generate_fiber_outline") =>
        LET base == C12_FiberBase(args.age, args.gender)
            lowered == 10 * RoundHalfEven(95 * base, 100)
        IN /\ args.activity_level # "inactive"
                => ret.recommended_intake >= 10 * base
           /\ args.activity_level = "inactive"
                => /\ ret.recommended_intake >= lowered
                   /\ 14 * args.eer <= 9500 * base * 100
                        => (ret.recommended_intake = lowered /\ lowered < 10 * base)
           /\ ret.recommended_intake >= ret.lower_limit

\* an inactive boy of 14 at 2000 kcal: 38 * 0.95 = 36.1 gives 36 g, below
\* the base AI of 38 g
C13_Witness ==
    /\ ValidOutlineCall
    /\ fn = "generate_fiber_outline"
    /\ args = [age |-> 140, gender |-> "M", activity_level |-> "inactive",
               eer |-> 2000000]
    /\ ret.recommended_intake = 360

\* v is an integer nearest to a * n / d (d a multiple of 1000); the quotient
\* and the remainder are computed in two limbs
C19_NearestTo(v, a, n, d) ==
    LET dr == d \div 1000
        n1 == a * (n \div 1000)
        R  == (n1 % dr) * 1000 + a * (n % 1000)
        q  == (n1 \div dr) + (R \div d)
        r  == R % d
    IN \/ v = q /\ 2 * r <= d
       \/ v = q + 1 /\ 2 * r >= d

\* the base recommended intake (in tenths) of a clamped generator for an age
\* and a gender: what it returns for an inactive person (multiplier 1.0) at
\* the reference EER (adjustment 1.0)
C19_Base(f, age, gender) ==
    Generate(f, age, gender, "inactive",
             IF gender = "M" THEN 2500000 ELSE 2000000).recommended_intake

\* C19: the returned recommended_intake is always rounded to the nutrient's
\* precision: an integer for the integer-precision nutrients and a multiple
\* of 0.1 for the one-decimal nutrients (amounts are held in tenths, so any
\* amount is a multiple of 0.1), and it differs from the unrounded adjusted
\* value by at most half a unit of that precision (0.5 or 0.05).
C19_RoundedToPrecision ==
    ValidOutlineCall =>
        /\ fn \notin OneDecimal => ret.recommended_intake % 10 = 0
        /\ fn \in Clamped =>
              LET p == IF fn \in OneDecimal THEN 1 ELSE 10
                  base == C19_Base(fn, args.age, args.gender) \div p
                  m == ActivityMultipliers(fn)[args.activity_level]
                  w == C6_Window(fn)
                  ref == IF args.gender = "M" THEN 2500 ELSE 2000
                  adj == IF args.eer <= w[1] * ref * 10 THEN <<w[1], 100>>
                         ELSE IF args.eer >= w[2] * ref * 10 THEN <<w[2], 100>>
                         ELSE <<args.eer, ref * 1000>>
              IN /\ ActivityMultipliers(fn)["inactive"] = 100
                 /\ C19_NearestTo(ret.recommended_intake \div p, base * m,
                                  adj[1], 100 * adj[2])
        /\ fn = "generate_fiber_outline" =>
              LET by_activity == C12_FiberBase(args.age, args.gender)
                                   * fiber_activity_multipliers[args.activity_level] * 10000
              IN C12_NearestGram(ret.recommended_intake,
                                 IF by_activity >= 14 * args.eer THEN by_activity
                                 ELSE 14 * args.eer)
        /\ fn = "generate_carbohydrates_outline" =>
              C9_Nearest(ret.recommended_intake, 11 * args.eer, 80000)
        /\ fn = "generate_fat_outline" =>
              C9_Nearest(ret.recommended_intake, 11 * args.eer, 360000)

\* vitamin B6 of a low-active man of 25 at 2600 kcal: 1.3 * 1.03 * 1.04 =
\* 1.392... is reported as 1.4 mg
C19_Witness ==
    /\ ValidOutlineCall
    /\ fn = "generate_vitamin_b6_outline"
    /\ args.age = 250 /\ args.gender = "M" /\ args.activity_level = "low_active"
    /\ args.eer > 2500000 /\ args.eer < 2625000
    /\ ret.recommended_intake = 14

\* the generators whose middle age band starts at 19
C20_MiddleBandFrom19 ==
    {"generate_vitamin_b6_outline", "generate_calcium_outline",
     "generate_chloride_outline", "generate_chromium_outline",
     "generate_iron_outline", "generate_magnesium_outline"}

\* C20: in the generators whose middle age band starts at 19, an age
\* strictly between 18 and 19 receives the values of the 14-18 band or of the
\* middle band (the outline of an 18 or of a 19 year old with the same other
\* arguments) and never the oldest band's values or UL.
C20_Between18And19NotOldest ==
    (ValidOutlineCall /\ fn \in C20_MiddleBandFrom19
        /\ 180 < args.age /\ args.age < 190) =>
        \/ ret = Generate(fn, 180, args.gender, args.activity_level, args.eer)
        \/ ret = Generate(fn, 190, args.gender, args.activity_level, args.eer)

----------------------------------------------------------------------------
(* Properties of generate_nutritional_guideline *)

\* a call of generate_nutritional_guideline is running or has completed
GuidelineCall == fn = "generate_nutritional_guideline"

\* a call of generate_nutritional_guideline has returned a report
GuidelineReturned == GuidelineCall /\ pc = "done" /\ ret.status = "ok"

\* the age, gender and activity_level of the call are valid
ValidGuidelineCall ==
    /\ GuidelineCall
    /\ args.age >= 140
    /\ args.gender \in {"M", "F"}
    /\ args.activity_level \in ValidActivityLevels

\* the generator behind each key of the report
GeneratorOf == [
    carbohydrates |-> "generate_carbohydrates_outline",
    fiber |-> "generate_fiber_outline",
    protein |-> "generate_protein_outline",
    fat |-> "generate_fat_outline",
    vitamin_a |-> "generate_vitamin_a_outline",
    vitamin_c |-> "generate_vitamin_c_outline",
    vitamin_d |-> "generate_vitamin_d_outline",
    vitamin_b6 |-> "generate_vitamin_b6_outline",
    vitamin_e |-> "generate_vitamin_e_outline",
    vitamin_k |-> "generate_vitamin_k_outline",
    thiamin |-> "generate_thiamin_outline",
    vitamin_b12 |-> "generate_vitamin_b12_outline",
    riboflavin |-> "generate_riboflavin_outline",
    folate |-> "generate_folate_outline",
    niacin |-> "generate_niacin_outline",
    choline |-> "generate_choline_outline",
    pantothenic_acid |-> "generate_pantothenic_acid_outline",
    biotin |-> "generate_biotin_outline",
    calcium |-> "generate_calcium_outline",
    chloride |-> "generate_chloride_outline",
    chromium |-> "generate_chromium_outline",
    copper |-> "generate_copper_outline",
    fluoride |-> "generate_fluoride_outline",
    iodine |-> "generate_iodine_outline",
    iron |-> "generate_iron_outline",
    magnesium |-> "generate_magnesium_outline",
    manganese |-> "generate_manganese_outline",
    molybdenum |-> "generate_molybdenum_outline",
    phosphorus |-> "generate_phosphorus_outline",
    potassium |-> "generate_potassium_outline",
    selenium |-> "generate_selenium_outline",
    sodium |-> "generate_sodium_outline",
    zinc |-> "generate_zinc_outline"
    ]

OutlineKeys == {"recommended_intake", "lower_limit", "upper_limit", "units"}

\* C14: every successful call of generate_nutritional_guideline returns a
\* structure with exactly the three top-level keys macronutrients, vitamins,
\* minerals; macronutrients has exactly carbohydrates, fiber, protein, fat;
\* vitamins has exactly 14 entries and minerals exactly 15 entries, one per
\* generator, each entry being an outline with recommended_intake,
\* lower_limit, upper_limit and units.
C14_ReportStructure ==
    GuidelineReturned =>
        LET g == ret.value
            keys == UNION {DOMAIN g[s] : s \in DOMAIN g}
        IN /\ DOMAIN g = {"macronutrients", "vitamins", "minerals"}
           /\ DOMAIN g.macronutrients = {"carbohydrates", "fiber", "protein", "fat"}
           /\ Cardinality(DOMAIN g.vitamins) = 14
           /\ Cardinality(DOMAIN g.minerals) = 15
           /\ \A s \in DOMAIN g, t \in DOMAIN g :
                 s # t => DOMAIN g[s] \cap DOMAIN g[t] = {}
           /\ keys = DOMAIN GeneratorOf
           /\ {GeneratorOf[k] : k \in keys} = Generators
           /\ "biotin" \in DOMAIN g.vitamins /\ "zinc" \in DOMAIN g.minerals
           /\ \A s \in DOMAIN g : \A k \in DOMAIN g[s] :
                 DOMAIN g[s][k] = OutlineKeys

\* the report of the documented man of 25 (170 cm, 70 kg, active), whose
\* fat outline recommends 90 g
C14_Witness ==
    /\ GuidelineReturned
    /\ args = [age |-> 250, height |-> 170, weight |-> 70, gender |-> "M",
               activity_level |-> "active"]
    /\ ret.value.macronutrients.fat.recommended_intake = 900
    /\ ret.value.minerals.zinc.units = "mg"

\* C15: generate_nutritional_guideline evaluates calc_EER exactly once and
\* passes that one EER value, together with the unchanged age, gender and
\* activity_level, to every generator, in source order; each entry of the
\* report equals what the corresponding generator returns for (age, gender,
\* activity_level, calc_EER(age, height, weight, gender, activity_level)).
C15_OneEERSharedByAll ==
    GuidelineCall =>
        LET made == locals.calls
            e == calc_EER(args.age, args.height, args.weight, args.gender,
                          args.activity_level)
        IN /\ Cardinality({i \in DOMAIN made : made[i].fn = "calc_EER"})
                 = (IF pc = "calc_EER" THEN 0 ELSE 1)
           /\ \A i \in DOMAIN made :
                 IF i = 1
                 THEN made[i] = [fn |-> "calc_EER", args |-> args]
                 ELSE /\ made[i].fn = GeneratorOrder[i - 1]
                      /\ made[i].args = [age |-> args.age, gender |-> args.gender,
                                         activity_level |-> args.activity_level,
                                         eer |-> e.value]
           /\ GuidelineReturned =>
                 /\ Len(made) = 1 + Cardinality(Generators)
                 /\ \A s \in DOMAIN ret.value : \A k \in DOMAIN ret.value[s] :
                       ret.value[s][k]
                         = dict_of(Generate(GeneratorOf[k], args.age, args.gender,
                                            args.activity_level, e.value))

\* the documented man of 25: every generator, the last one included, was
\* given the EER of 2956.17 kcal
C15_Witness ==
    /\ GuidelineReturned
    /\ args = [age |-> 250, height |-> 170, weight |-> 70, gender |-> "M",
               activity_level |-> "active"]
    /\ locals.eer = Num(2956170)
    /\ locals.calls[34] = [fn |-> "generate_zinc_outline",
                           args |-> [age |-> 250, gender |-> "M",
                                     activity_level |-> "active", eer |-> 2956170]]

\* C16: in generate_nutritional_guideline, if calc_EER raises then no
\* generator is invoked and the error propagates; if any generator raises,
\* the error propagates and no report (not even a partial one) is returned.
C16_ErrorsPropagate ==
    (GuidelineCall /\ pc # "calc_EER") =>
        LET made == locals.calls
            e == calc_EER(args.age, args.height, args.weight, args.gender,
                          args.activity_level)
            outcome(i) == Generate(made[i].fn, args.age, args.gender,
                                   args.activity_level, e.value)
        IN IF e.status = "error"
           THEN /\ pc = "done"
                /\ ret = e
                /\ Len(made) = 1
           ELSE LET raised == {i \in 2..Len(made) : outcome(i).status = "error"}
                IN IF raised = {}
                   THEN /\ pc = "done" => GuidelineReturned
                        /\ ret.status # "error"
                   ELSE /\ pc = "done"
                        /\ raised = {Len(made)}
                        /\ ret = outcome(Len(made))
                        /\ DOMAIN ret = {"status", "error"}

\* a boy of 14 of 10 cm and 10 kg: calc_EER returns a negative number, the
\* first generator raises on eer <= 0, and the call ends with that error
C16_Witness ==
    /\ GuidelineCall
    /\ pc = "done"
    /\ args.age = 140 /\ args.height = 10 /\ args.weight = 10 /\ args.gender = "M"
    /\ locals.eer.status = "ok" /\ locals.eer.value < 0
    /\ Len(locals.calls) = 2
    /\ ret = Err("eer")

----------------------------------------------------------------------------
(* Properties of interleaved calls *)

\* the dictionaries that the frame f references
Held(f) == {f.outlines[g] : g \in DOMAIN f.outlines}

\* the call of frame f has returned and its caller has not changed the
\* outlines since
Untouched(f) == f.pc = "done" /\ ~f.changed

\* C17: calls share no mutable state: when calls of
\* generate_nutritional_guideline and of generate_fiber_outline are
\* interleaved in any order, each call returns exactly the result it returns
\* when run alone, and every call builds fresh outlines (no dictionary is
\* referenced twice, within a call or by two calls), so changing a returned
\* outline does not change the result of any other or later call.
C17_NoSharedState ==
    \A t \in Threads :
        LET f == threads[t]
            a == f.args
        IN /\ Cardinality(Held(f)) = Cardinality(DOMAIN f.outlines)
           /\ \A u \in Threads \ {t} : Held(f) \cap Held(threads[u]) = {}
           /\ (f.pc = "done" /\ f.fn = "generate_fiber_outline") =>
                 LET alone == generate_fiber_outline(a.age, a.gender,
                                                     a.activity_level, a.eer)
                 IN IF alone.status = "error" THEN f.ret = alone
                    ELSE /\ f.ret.status = "ok"
                         /\ f.ret.ref \in Held(f)
                         /\ Untouched(f) => heap[f.ret.ref] = heap_dict(alone)
           /\ (f.pc = "done" /\ f.fn = "generate_nutritional_guideline") =>
                 LET e == calc_EER(a.age, a.height, a.weight, a.gender,
                                   a.activity_level)
                     alone(g) == Generate(g, a.age, a.gender, a.activity_level,
                                          e.value)
                 IN IF e.status = "error" THEN f.ret = e
                    ELSE IF alone(GeneratorOrder[1]).status = "error"
                    THEN f.ret = alone(GeneratorOrder[1])
                    ELSE /\ f.ret.status = "ok"
                         /\ \A s \in DOMAIN f.ret.value :
                               \A k \in DOMAIN f.ret.value[s] :
                                  /\ f.ret.value[s][k] \in Held(f)
                                  /\ Untouched(f) =>
                                        heap[f.ret.value[s][k]]
                                          = heap_dict(alone(GeneratorOf[k]))

\* the first caller has changed the fiber outline it was returned; the
\* second caller holds the outline of a call with the same arguments, which
\* is intact (42 g for 3000 kcal), and the first caller's is not
C17_Witness ==
    /\ threads[1].pc = "done" /\ threads[1].changed
    /\ threads[1].fn = "generate_fiber_outline"
    /\ threads[1].args = [age |-> 510, gender |-> "M",
                          activity_level |-> "inactive", eer |-> 3000000]
    /\ threads[2].pc = "done" /\ ~threads[2].changed
    /\ threads[2].fn = "generate_fiber_outline"
    /\ threads[2].args = threads[1].args
    /\ heap[threads[1].ret.ref].recommended_intake = -1000
    /\ heap[threads[2].ret.ref].recommended_intake = 42000
    /\ heap[threads[2].ret.ref].upper_limit = 63000

----------------------------------------------------------------------------
(* Ages between the bands *)

\* C21: in generate_sodium_outline an age strictly between 50 and 51 gets
\* the outline of the 14-50 band (the outline for age 50) or of the 51-70
\* band (the outline for age 51), and so not the values of the final branch
\* that is labelled 'Age 71+'.
C21_Between50And51NotOldest ==
    (ValidOutlineCall /\ fn = "generate_sodium_outline"
        /\ 500 < args.age /\ args.age < 510) =>
        \/ ret = Generate(fn, 500, args.gender, args.activity_level, args.eer)
        \/ ret = Generate(fn, 510, args.gender, args.activity_level, args.eer)

\* the generators that split the ages into 14-18 and 19+ (phosphorus
\* lowers its upper_limit above 70 besides)
C22_TeenAdultSplit ==
    {"generate_protein_outline", "generate_vitamin_a_outline",
     "generate_vitamin_c_outline", "generate_vitamin_e_outline",
     "generate_vitamin_k_outline", "generate_thiamin_outline",
     "generate_riboflavin_outline", "generate_folate_outline",
     "generate_niacin_outline", "generate_choline_outline",
     "generate_biotin_outline", "generate_copper_outline",
     "generate_fluoride_outline", "generate_iodine_outline",
     "generate_manganese_outline", "generate_molybdenum_outline",
     "generate_phosphorus_outline", "generate_potassium_outline",
     "generate_selenium_outline", "generate_zinc_outline"}

\* an integer age of the band that calc_EER's test of adolescence puts the
\* age in: 18 for an adolescent, 19 (above 70: 71) for an adult
C22_BandAge(age) ==
    IF is_adolescent(age) THEN 180 ELSE IF age <= 700 THEN 190 ELSE 710

\* C22: a generator with a 14-18 versus 19+ split uses its 14-18 values
\* exactly when calc_EER uses an adolescent equation, that is when
\* age < 19: the outline is the one for age 18 when calc_EER takes the age
\* for an adolescent's and the one for an adult otherwise.
C22_AdolescentAsInCalcEER ==
    (ValidOutlineCall /\ fn \in C22_TeenAdultSplit) =>
        ret = Generate(fn, C22_BandAge(args.age), args.gender,
                       args.activity_level, args.eer)

----------------------------------------------------------------------------
(* Errors of generate_nutritional_guideline *)

\* the call of generate_nutritional_guideline is over
GuidelineDone == GuidelineCall /\ pc = "done"

\* the report has an outline for each of the 33 nutrients
CompleteReport ==
    /\ ret.status = "ok"
    /\ UNION {DOMAIN ret.value[s] : s \in DOMAIN ret.value} = DOMAIN GeneratorOf
    /\ \A s \in DOMAIN ret.value : \A k \in DOMAIN ret.value[s] :
          DOMAIN ret.value[s][k] = OutlineKeys

\* C23: for inputs that pass calc_EER's validation,
\* generate_nutritional_guideline raises an error if and only if the EER
\* that calc_EER computed is not greater than 0; the error is then raised by
\* the first generator called, generate_carbohydrates_outline, and in every
\* other case a complete report is returned.
C23_ErrorIffEERNotPositive ==
    (ValidGuidelineCall /\ GuidelineDone) =>
        /\ locals.eer.status = "ok"
        /\ IF locals.eer.value <= 0
           THEN /\ ret = Err("eer")
                /\ Len(locals.calls) = 2
                /\ locals.calls[2].fn = "generate_carbohydrates_outline"
                /\ locals.outlines = <<>>
           ELSE /\ CompleteReport
                /\ Len(locals.calls) = 1 + Cardinality(Generators)

\* a girl of 14 with a height and weight of 0: calc_EER computes
\* -589.04 kcal, and the call ends with the error of the EER check
C23_Witness ==
    /\ GuidelineDone
    /\ args = [age |-> 140, height |-> 0, weight |-> 0, gender |-> "F",
               activity_level |-> "low_active"]
    /\ locals.eer = Num(-589040)
    /\ ret = Err("eer")
    /\ Len(locals.calls) = 2

\* the height and the weight of the call are positive
PositiveSize == args.height > 0 /\ args.weight > 0

\* the EER of the profile of the call, as calc_EER computes it
ProfileEER ==
    calc_EER(args.age, args.height, args.weight, args.gender,
             args.activity_level)

\* C24 as stated: every profile with age >= 14, height > 0, weight > 0, a
\* gender in {M, F} and a recognized activity_level gets a complete report
\* and no error.
C24_PositiveSizeGetsReport ==
    (ValidGuidelineCall /\ GuidelineDone /\ PositiveSize) => CompleteReport

\* C24, amended: such a profile gets a complete report and no error
\* whenever its EER is greater than 0; a positive height and weight do not
\* make the EER positive, and a profile whose EER is not greater than 0 gets
\* the error of the EER check instead.
C24_PositiveEERGetsReport ==
    (ValidGuidelineCall /\ GuidelineDone /\ PositiveSize) =>
        IF ProfileEER.value > 0 THEN CompleteReport ELSE ret = Err("eer")

\* a very active man of 80 of 10 cm and 50 kg: the EER is -272.68 kcal and
\* the call raises the error
C24_Witness ==
    /\ GuidelineDone
    /\ args = [age |-> 800, height |-> 10, weight |-> 50, gender |-> "M",
               activity_level |-> "very_active"]
    /\ PositiveSize
    /\ ProfileEER = Num(-272680)
    /\ ret = Err("eer")

----------------------------------------------------------------------------
(* Monotonicity *)

\* the activity level that follows in the order inactive, low_active,
\* active, very_active (very_active is the last)
NextActivityLevel ==
    [inactive |-> "low_active", low_active |-> "active",
     active |-> "very_active", very_active |-> "very_active"]

\* C25: for every generator and fixed valid age, gender and eer,
\* recommended_intake is non-decreasing along the order inactive,
\* low_active, active, very_active: the same call with the next activity
\* level recommends at least as much.
C25_MonotoneInActivity ==
    ValidOutlineCall =>
        ret.recommended_intake
            <= Generate(fn, args.age, args.gender,
                        NextActivityLevel[args.activity_level],
                        args.eer).recommended_intake

\* calcium for a woman of 30 at 2000 kcal: a low_active call recommends
\* 1030 mg, more than the 1000 mg of the inactive call and less than the
\* 1070 mg of the active call
C25_Witness ==
    /\ ValidOutlineCall
    /\ fn = "generate_calcium_outline"
    /\ args = [age |-> 300, gender |-> "F", activity_level |-> "low_active",
               eer |-> 2000000]
    /\ ret.recommended_intake = 10300
    /\ Generate(fn, 300, "F", "inactive", 2000000).recommended_intake = 10000
    /\ Generate(fn, 300, "F", "active", 2000000).recommended_intake = 10700

\* larger EERs to compare a call with: the next EER of the grid and the
\* EERs that lie on every grid
C26_Larger(eer) ==
    {e \in {eer + 1000 * EerStep, 1800000, 2000000, 2500000, 2956170} :
        e >= eer /\ e <= 1000 * EerStep * EerSteps}

\* C26: for every generator and fixed valid age, gender and activity_level,
\* recommended_intake, lower_limit and upper_limit are non-decreasing in
\* eer: the same call with a larger eer returns at least as much of each.
C26_MonotoneInEER ==
    ValidOutlineCall =>
        \A e \in C26_Larger(args.eer) :
            LET more == Generate(fn, args.age, args.gender,
                                 args.activity_level, e)
            IN /\ ret.recommended_intake <= more.recommended_intake
               /\ ret.lower_limit <= more.lower_limit
               /\ ret.upper_limit <= more.upper_limit

\* iron for an inactive woman of 30: 18 mg at 2000 kcal, 18.9 mg at
\* 2500 kcal (adjustment clamped to 1.05), with lower and upper limit
\* unchanged
C26_Witness ==
    /\ ValidOutlineCall
    /\ fn = "generate_iron_outline"
    /\ args = [age |-> 300, gender |-> "F", activity_level |-> "inactive",
               eer |-> 2000000]
    /\ 2500000 \in C26_Larger(args.eer)
    /\ ret.recommended_intake = 180
    /\ Generate(fn, 300, "F", "inactive", 2500000).recommended_intake = 189
    /\ Generate(fn, 300, "F", "inactive", 2500000).upper_limit = ret.upper_limit

----------------------------------------------------------------------------
(* What the lower limit depends on *)

\* a call with the same age and gender and another activity_level and eer
C27_OtherActivityAndEER ==
    [inactive |-> [activity_level |-> "very_active", eer |-> 2956170],
     low_active |-> [activity_level |-> "inactive", eer |-> 1],
     active |-> [activity_level |-> "low_active", eer |-> 1800000],
     very_active |-> [activity_level |-> "active", eer |-> 2000000]]

\* C27: in every generator other than carbohydrate and fat, lower_limit
\* depends on age and gender only: a valid call with the same age and
\* gender and another activity_level and eer returns the same lower_limit.
C27_LowerLimitByAgeAndGender ==
    (ValidOutlineCall /\ fn \in WithMultipliers) =>
        LET other == C27_OtherActivityAndEER[args.activity_level]
        IN ret.lower_limit
             = Generate(fn, args.age, args.gender, other.activity_level,
                        other.eer).lower_limit

\* magnesium for an inactive man of 25 at 2500 kcal: lower limit 330 mg, as
\* for the very active man at 2956.17 kcal, whose recommended intake is
\* larger
C27_Witness ==
    /\ ValidOutlineCall
    /\ fn = "generate_magnesium_outline"
    /\ args = [age |-> 250, gender |-> "M", activity_level |-> "inactive",
               eer |-> 2500000]
    /\ ret.lower_limit = 3300
    /\ LET other == Generate(fn, 250, "M", "very_active", 2956170)
       IN /\ other.lower_limit = 3300
          /\ other.recommended_intake > ret.recommended_intake

----------------------------------------------------------------------------
(* Order of the validation checks *)

\* C28: the validation checks run in a fixed order and stop at the first
\* failure: age, gender, activity_level, eer in every generator and age,
\* gender, activity_level in calc_EER; when several arguments are invalid
\* the error raised is that of the earliest failing check.
C28_EarliestFailingCheck ==
    ((GeneratorCall \/ EERCall) /\ ret.status = "error") =>
        LET age_ok == args.age >= 140
            gender_ok == args.gender \in {"M", "F"}
            activity_level_ok == args.activity_level \in ValidActivityLevels
        IN /\ ~age_ok => ret = Err("age")
           /\ (age_ok /\ ~gender_ok) => ret = Err("gender")
           /\ (age_ok /\ gender_ok /\ ~activity_level_ok) =>
                 ret = Err("activity_level")
           /\ (age_ok /\ gender_ok /\ activity_level_ok) =>
                 /\ GeneratorCall
                 /\ ~(args.eer > 0)
                 /\ ret = Err("eer")

\* a selenium call with an unknown gender, an unknown activity level and a
\* negative eer: the error is the one for the gender
C28_Witness ==
    /\ GeneratorCall
    /\ fn = "generate_selenium_outline"
    /\ args = [age |-> 250, gender |-> "X", activity_level |-> "sedentary",
               eer |-> -500000]
    /\ ret = Err("gender")

----------------------------------------------------------------------------
(* The returns of calc_EER *)

\* C29: for every input that passes calc_EER's validation, calc_EER reaches
\* one of its 16 return statements and returns a number; the Vitamin A
\* block that follows the returns is never executed, so calc_EER returns
\* neither an outline dictionary nor no value.
C29_AlwaysReturnsNumber ==
    ValidEERCall =>
        /\ ret.status = "ok"
        /\ DOMAIN ret = {"status", "value"}
        /\ ret.value \in Int
        /\ ret # embedded_vitamin_a(args.age, args.gender)
        /\ ret # NoRet

\* a very active woman of 71 (160 cm, 60 kg), the last of the 16 returns:
\* 2218.92 kcal
C29_Witness ==
    /\ ValidEERCall
    /\ args = [age |-> 710, height |-> 160, weight |-> 60, gender |-> "F",
               activity_level |-> "very_active"]
    /\ ret = Num(2218920)

----------------------------------------------------------------------------
(* The two definitions of calc_EER *)

\* a call of the calc_EER of utils.py has completed
UtilsEERCall == pc = "done" /\ fn = "utils.calc_EER"

\* C30: the calc_EER of utils.py and the calc_EER of
\* nutritional_guidelines.py are equivalent: for every input both raise the
\* same error or both return the same number.
C30_SameCalcEER ==
    /\ EERCall =>
          ret = utils_calc_EER(args.age, args.height, args.weight,
                               args.gender, args.activity_level)
    /\ UtilsEERCall =>
          /\ ret = calc_EER(args.age, args.height, args.weight, args.gender,
                            args.activity_level)
          /\ ret.status \in {"ok", "error"}

\* the calc_EER of utils.py for an active woman of 50.5 (170 cm, 80 kg):
\* 2455.245 kcal, as from the calc_EER of nutritional_guidelines.py
C30_Witness ==
    /\ UtilsEERCall
    /\ args = [age |-> 505, height |-> 170, weight |-> 80, gender |-> "F",
               activity_level |-> "active"]
    /\ ret = Num(2455245)
    /\ calc_EER(505, 170, 80, "F", "active") = Num(2455245)

====
